---- MODULE Spec2Model ----
(***************************************************************************)
(* Lyric selection of the karaoke backend (python-backend/app.py):         *)
(* the Word Counter (count_words), the automatic Guess Selector            *)
(* (extract_lyric_to_guess, a recursion driven by get_lyrics) and the      *)
(* Time-Based Extractor (extract_specific_lyric).                          *)
(*                                                                         *)
(* A lyric text is a sequence of one-character strings; a DataFrame is a   *)
(* record of its column names and its rows in positional order (the        *)
(* default RangeIndex, so label = position).                               *)
(***************************************************************************)
EXTENDS Integers, Sequences, FiniteSets

VARIABLES
    song_lyrics,      \* Song.lyrics of the requested track: rows {startTimeMs, words}
    words_to_guess,   \* get_lyrics: the requested target, after int()
    lyric_time,       \* get_lyrics: specific_lyric_time, <<>> for None or <<t>>
    pc,               \* position of the request / of the word-counter run
    df,               \* df_lyrics, the DataFrame shared by handler and selector
    target,           \* extract_lyric_to_guess: words_to_guess of the current call
    recursion_depth,  \* extract_lyric_to_guess: recursion_depth of the current call
    ret,              \* value (or exception) coming back from the selector
    via,              \* the return statement the selector came back through
    attempts,         \* number of candidate sets built (calls that passed the depth guard)
    count_calls,      \* number of calls of count_words on a column
    list_lyrics,      \* the handler's response
    s_words,          \* count_words: the text under count (word-counter runs)
    n_words,          \* count_words: the resulting count
    entry,            \* the handler serving the request: get_lyrics or get_lyrics_internal
    spotify_lyrics,   \* get_lyrics_internal: what SpotifyLyricsDriver().get_lyrics gave
    arg_lyric_time,   \* the lyric_time argument as the caller supplied it
    manage,           \* manage_lyrics: the operation, its lyric_time and its answer
    db_songs,         \* table songs: the ids of the stored Song rows
    db_categories,    \* table categories: the ids of the stored Category rows
    db_song_category, \* table song_category: its rows <<song_id, category_id>>, in insertion order
    db_lyrics,        \* column songs.lyrics: per song id its transcript, <<>> for none
    request,          \* the last request to a database endpoint
    response,         \* the answer to that request
    sockets,          \* the list sockets of connected session ids
    room_karaoke,     \* the session ids in room 'karaoke'
    event,            \* the last Socket.IO event received
    delivered         \* per client, the outbound events the last event produced

vars == <<song_lyrics, words_to_guess, lyric_time, pc, df, target, recursion_depth,
          ret, via, attempts, count_calls, list_lyrics, s_words, n_words,
          entry, spotify_lyrics, arg_lyric_time, manage,
          db_songs, db_categories, db_song_category, db_lyrics, request,
          response, sockets, room_karaoke, event, delivered>>

\* the state of the handlers other than the lyric selection
handler_vars == <<entry, spotify_lyrics, arg_lyric_time, manage>>

\* the relational store and the last request to it
store_vars == <<db_songs, db_categories, db_song_category, db_lyrics, request, response>>

\* the Socket.IO connections and the last event relayed
relay_vars == <<sockets, room_karaoke, event, delivered>>

\* the lyric selection leaves the store and the connections alone
plumbing_vars == <<store_vars, relay_vars>>

\* no database request and no connection yet
PlumbingIdle ==
    /\ db_songs = {}
    /\ db_categories = {}
    /\ db_song_category = <<>>
    /\ db_lyrics = <<>>
    /\ request = [op |-> "None"]
    /\ response = [status |-> 0]
    /\ sockets = <<>>
    /\ room_karaoke = {}
    /\ event = [name |-> "None"]
    /\ delivered = <<>>

----------------------------------------------------------------------------
(* Bounds of the model *)

MaxLines == 2        \* longest transcript
MaxTarget == 7       \* largest requested words_to_guess
MaxLen == 4          \* longest text enumerated for the word counter

(* Program constants *)

DEFAULT_WORDS_TO_GUESS == 5
MAX_RECURSION_DEPTH == 5
min_song_duration == 20000

None == "None"

----------------------------------------------------------------------------
(* Python str methods used by count_words *)

\* characters str.split() without argument treats as whitespace
Whitespace == {" ", "\t"}

\* str.replace(old, new) for one-character old and new
replace(x, old, new) == [i \in 1..Len(x) |-> IF x[i] = old THEN new ELSE x[i]]

RECURSIVE split_from(_, _, _, _)
split_from(x, i, cur, acc) ==
    IF i > Len(x)
    THEN IF cur = <<>> THEN acc ELSE Append(acc, cur)
    ELSE IF x[i] \in Whitespace
         THEN split_from(x, i + 1, <<>>, IF cur = <<>> THEN acc ELSE Append(acc, cur))
         ELSE split_from(x, i + 1, Append(cur, x[i]), acc)

\* str.split(): the maximal runs of non-whitespace characters, in order
split(x) == split_from(x, 1, <<>>, <<>>)

\* the lambda of count_words, with only the apostrophe replaced
word_len_apostrophe_only(x) == Len(split(replace(x, "'", " ")))

\* the lambda of count_words: len(x.replace("'", " ").replace("-", " ").split())
word_len(x) == Len(split(replace(replace(x, "'", " "), "-", " ")))

\* count_words(s_words): the lambda applied to every element of the column
count_words(col) == [i \in 1..Len(col) |-> word_len(col[i])]

\* a words value that is not a string: JSON null
NullText == <<None>>

\* count_words(s_words) raises: x.replace on an element that is not a string
count_words_raises(col) == \E i \in 1..Len(col) : col[i] = NullText

----------------------------------------------------------------------------
(* pandas operations used by the handler and the two selectors *)

\* pd.DataFrame(song.lyrics, columns=['startTimeMs', 'words'])
DataFrame(records) ==
    [columns |-> {"startTimeMs", "words"},
     rows    |-> [i \in 1..Len(records) |->
                    [startTimeMs |-> records[i].startTimeMs,
                     words       |-> records[i].words,
                     word_count  |-> None]]]

\* df.empty
empty(d) == Len(d.rows) = 0

\* df['words']
words_column(d) == [i \in 1..Len(d.rows) |-> d.rows[i].words]

\* df['word_count'] = count_words(df['words'])
set_word_count(d) ==
    [columns |-> d.columns \cup {"word_count"},
     rows    |-> [i \in 1..Len(d.rows) |->
                    [d.rows[i] EXCEPT !.word_count = count_words(words_column(d))[i]]]]

\* the slice df.iloc[:0]
iloc_none(d) == [d EXCEPT !.rows = <<>>]

\* df.iloc[:1]
iloc_first(d) ==
    [d EXCEPT !.rows = IF Len(d.rows) = 0 THEN <<>> ELSE <<d.rows[1]>>]

\* df.to_dict(orient='records'): one record per row, one field per column
to_dict(d) ==
    IF "word_count" \in d.columns
    THEN d.rows
    ELSE [i \in 1..Len(d.rows) |->
            [startTimeMs |-> d.rows[i].startTimeMs, words |-> d.rows[i].words]]

\* an exception leaving the selector
Raised == [status |-> "raised", lines |-> DataFrame(<<>>), words_to_guess |-> 0]

\* "return d, n"
Returned(d, n) == [status |-> "ok", lines |-> d, words_to_guess |-> n]

\* the possible values of "return d.sample(1), n": one row drawn at random,
\* ValueError on an empty frame
sample_one(d, n) ==
    IF empty(d)
    THEN {Raised}
    ELSE {Returned([d EXCEPT !.rows = <<d.rows[i]>>], n) : i \in 1..Len(d.rows)}

----------------------------------------------------------------------------
(* extract_lyric_to_guess, one call of the recursion *)

\* the guard of the recursion with > in place of >=
depth_limit_reached_gt(depth) == depth > MAX_RECURSION_DEPTH

\* the guard of the recursion one call early
depth_limit_reached_early(depth) == depth >= MAX_RECURSION_DEPTH - 1

\* recursion_depth >= MAX_RECURSION_DEPTH
depth_limit_reached(depth) == depth >= MAX_RECURSION_DEPTH

\* the filter with >= in place of >
df_reduced_ge(d) ==
    [d EXCEPT !.rows = SelectSeq(d.rows, LAMBDA r : r.startTimeMs >= min_song_duration)]

\* df_reduced = df[df["startTimeMs"] > min_song_duration]
df_reduced(d) ==
    [d EXCEPT !.rows = SelectSeq(d.rows, LAMBDA r : r.startTimeMs > min_song_duration)]

\* the matcher with >= in place of ==
guess_candidates_ge(d, k) ==
    [d EXCEPT !.rows = SelectSeq(df_reduced(d).rows, LAMBDA r : r.word_count >= k)]

\* the matcher with <= in place of ==
guess_candidates_le(d, k) ==
    [d EXCEPT !.rows = SelectSeq(df_reduced(d).rows, LAMBDA r : r.word_count <= k)]

\* guess_candidates = df_reduced[df_reduced['word_count'] == words_to_guess]
guess_candidates(d, k) ==
    [d EXCEPT !.rows = SelectSeq(df_reduced(d).rows, LAMBDA r : r.word_count = k)]

\* the fallback taken from the filtered frame instead of the full one
fallback_of_reduced(d) == Returned(iloc_first(df_reduced(d)), 1)

\* the fallback taken from the end of the frame: df.iloc[-1:], 1
fallback_last(d) ==
    Returned([d EXCEPT !.rows = IF Len(d.rows) = 0 THEN <<>> ELSE <<d.rows[Len(d.rows)]>>], 1)

\* return df.iloc[:1], 1
fallback(d) == Returned(iloc_first(d), 1)

----------------------------------------------------------------------------
(* extract_specific_lyric *)

abs(n) == IF n < 0 THEN -n ELSE n

\* the exact filter with >= in place of ==
exact_rows_ge(d, t) ==
    [d EXCEPT !.rows = SelectSeq(d.rows, LAMBDA r : r.startTimeMs >= t)]

\* df_filtered = df[df['startTimeMs'] == lyric_time]
exact_rows(d, t) ==
    [d EXCEPT !.rows = SelectSeq(d.rows, LAMBDA r : r.startTimeMs = t)]

\* (df['startTimeMs'] - lyric_time).abs(): the column of distances
distances(d, t) == [i \in 1..Len(d.rows) |-> abs(d.rows[i].startTimeMs - t)]

\* the scan of idxmin replacing the best position on an equal value too
RECURSIVE idxmin_from_last(_, _, _)
idxmin_from_last(col, i, best) ==
    IF i > Len(col)
    THEN best
    ELSE idxmin_from_last(col, i + 1, IF col[i] <= col[best] THEN i ELSE best)

\* the scan of Series.idxmin(): a later position replaces the best one only
\* when its value is strictly smaller
RECURSIVE idxmin_from(_, _, _)
idxmin_from(col, i, best) ==
    IF i > Len(col)
    THEN best
    ELSE idxmin_from(col, i + 1, IF col[i] < col[best] THEN i ELSE best)

\* (df['startTimeMs'] - lyric_time).abs().idxmin(): first position of the minimum
closest_idx(d, t) == idxmin_from(distances(d, t), 2, 1)

\* df_filtered after the exact filter and, when that is empty, df.iloc[[closest_idx]]
df_filtered(d, t) ==
    IF empty(exact_rows(d, t))
    THEN [d EXCEPT !.rows = <<d.rows[closest_idx(d, t)]>>]
    ELSE exact_rows(d, t)

\* extract_specific_lyric taking the count of the first row of df, not of df_filtered
extract_specific_lyric_first_row(d, t) ==
    LET f == df_filtered(d, t)
        g == IF "word_count" \notin f.columns THEN set_word_count(f) ELSE f
    IN  Returned(g, count_words(words_column(d))[1])

\* extract_specific_lyric(df, lyric_time); df is not empty
extract_specific_lyric(d, t) ==
    LET f == df_filtered(d, t)
        g == IF "word_count" \notin f.columns THEN set_word_count(f) ELSE f
    IN  Returned(g, g.rows[1].word_count)

----------------------------------------------------------------------------
(* Inputs *)

Txt_a        == <<"a">>
Txt_jaimetoi == <<"j", "'", "a", "i", "m", "e", "-", "t", "o", "i">>
Txt_six      == <<"a", " ", "b", " ", "c", " ", "d", " ", "e", " ", "f">>
Txt_eight    == <<"a", " ", "b", " ", "c", " ", "d", " ", "e", " ", "f", " ", "g", " ", "h">>

\* texts of the transcript lines: 1, 3, 6 and 8 words
Texts == {Txt_a, Txt_jaimetoi, Txt_six, Txt_eight}

\* start times around the 20 s threshold
Times == {5000, 20000, 20001, 100000}

LyricLines == [startTimeMs : Times, words : Texts]

Transcripts == UNION {[1..n -> LyricLines] : n \in 0..MaxLines}

\* requested word counts, after int()
Targets == (-1)..MaxTarget

\* lyric_time of the request: absent (None), or <<t>> for the integer t
NoTime == <<>>

LyricTimes == {NoTime, <<5000>>, <<12500>>, <<60000>>}

\* the lyric_time argument: absent (None), a string of characters, or an integer
NoArg == [kind |-> "none", chars |-> <<>>, value |-> 0]

StrArg(c) == [kind |-> "str", chars |-> c, value |-> 0]

IntArg(n) == [kind |-> "int", chars |-> <<>>, value |-> n]

\* the argument of a caller that supplies the integer itself, or nothing
supplied(t) == IF t = NoTime THEN NoArg ELSE IntArg(t[1])

\* manage_lyrics has not been asked anything
NoManage ==
    [operation |-> None, lyric_time |-> NoTime, status |-> 0,
     selected_lyric |-> <<>>, word_count |-> 0]

NoReturn == [status |-> "none", lines |-> DataFrame(<<>>), words_to_guess |-> 0]

NoResponse == [status |-> "none", lyrics |-> <<>>, lyricsToGuess |-> <<>>, words_to_guess |-> 0]

Init ==
    /\ song_lyrics \in Transcripts
    /\ words_to_guess \in Targets
    /\ lyric_time \in LyricTimes
    /\ pc = "request"
    /\ df = DataFrame(<<>>)
    /\ target = 0
    /\ recursion_depth = 0
    /\ ret = NoReturn
    /\ via = None
    /\ attempts = 0
    /\ count_calls = 0
    /\ list_lyrics = NoResponse
    /\ s_words = <<>>
    /\ n_words = 0
    /\ entry = "get_lyrics"
    /\ spotify_lyrics = <<>>
    /\ arg_lyric_time = supplied(lyric_time)
    /\ manage = NoManage
    /\ PlumbingIdle

----------------------------------------------------------------------------
(* get_lyrics *)

\* the except block answering with no selection at all
except_fallback_empty(d) == [lyricsToGuess |-> <<>>, words_to_guess |-> 0]

\* the except block answering with the default count
except_fallback_default(d) ==
    [lyricsToGuess |-> to_dict(iloc_first(d)), words_to_guess |-> DEFAULT_WORDS_TO_GUESS]

\* the except block around the selector: df_lyrics.iloc[:1] as records, and 1
except_fallback(d) == [lyricsToGuess |-> to_dict(iloc_first(d)), words_to_guess |-> 1]

\* the test of the browser mode comparing with a string, never true
zero_mode_never(w) == FALSE

\* words_to_guess == 0
zero_mode(w) == w = 0

\* the handler answering a song without lyrics with an empty selection
GetLyricsNoLyrics_silent ==
    /\ pc = "request"
    /\ entry = "get_lyrics"
    /\ Len(song_lyrics) = 0
    /\ pc' = "done"
    /\ list_lyrics' = [NoResponse EXCEPT !.status = "ok"]
    /\ UNCHANGED <<song_lyrics, words_to_guess, lyric_time, df, target, recursion_depth,
                   ret, via, attempts, count_calls, s_words, n_words>>
    /\ UNCHANGED <<handler_vars, plumbing_vars>>

\* "if not song.lyrics: raise ValueError", caught by the outer handler: error 500
GetLyricsNoLyrics ==
    /\ pc = "request"
    /\ entry = "get_lyrics"
    /\ Len(song_lyrics) = 0
    /\ pc' = "done"
    /\ list_lyrics' = [NoResponse EXCEPT !.status = "error"]
    /\ UNCHANGED <<song_lyrics, words_to_guess, lyric_time, df, target, recursion_depth,
                   ret, via, attempts, count_calls, s_words, n_words>>
    /\ UNCHANGED <<handler_vars, plumbing_vars>>

\* the frame get_lyrics builds: line 302 and, the frame not being empty, line 305
df_lyrics == set_word_count(DataFrame(song_lyrics))

\* count_words at line 305 raises, outside the inner try: error 500
GetLyricsCountError ==
    /\ pc = "request"
    /\ entry = "get_lyrics"
    /\ Len(song_lyrics) > 0
    /\ count_words_raises(words_column(DataFrame(song_lyrics)))
    /\ df' = DataFrame(song_lyrics)
    /\ count_calls' = count_calls + 1
    /\ pc' = "done"
    /\ list_lyrics' = [NoResponse EXCEPT !.status = "error"]
    /\ UNCHANGED <<song_lyrics, words_to_guess, lyric_time, target, recursion_depth,
                   ret, via, attempts, s_words, n_words>>
    /\ UNCHANGED <<handler_vars, plumbing_vars>>

\* lyric_time given: extract_specific_lyric
GetLyricsSpecific ==
    /\ pc = "request"
    /\ entry = "get_lyrics"
    /\ Len(song_lyrics) > 0
    /\ ~count_words_raises(words_column(DataFrame(song_lyrics)))
    /\ lyric_time # NoTime
    /\ df' = df_lyrics
    /\ count_calls' = count_calls + 1
    /\ ret' = extract_specific_lyric(df_lyrics, lyric_time[1])
    /\ via' = IF empty(exact_rows(df_lyrics, lyric_time[1])) THEN "nearest" ELSE "exact"
    /\ list_lyrics' = [status |-> "ok", lyrics |-> to_dict(df_lyrics),
                       lyricsToGuess |-> to_dict(ret'.lines),
                       words_to_guess |-> ret'.words_to_guess]
    /\ pc' = "done"
    /\ UNCHANGED <<song_lyrics, words_to_guess, lyric_time, target, recursion_depth,
                   attempts, s_words, n_words>>
    /\ UNCHANGED <<handler_vars, plumbing_vars>>

\* words_to_guess == 0: no line selected
GetLyricsZero ==
    /\ pc = "request"
    /\ entry = "get_lyrics"
    /\ Len(song_lyrics) > 0
    /\ ~count_words_raises(words_column(DataFrame(song_lyrics)))
    /\ lyric_time = NoTime
    /\ zero_mode(words_to_guess)
    /\ df' = df_lyrics
    /\ count_calls' = count_calls + 1
    /\ list_lyrics' = [status |-> "ok", lyrics |-> to_dict(df_lyrics),
                       lyricsToGuess |-> <<>>, words_to_guess |-> 0]
    /\ pc' = "done"
    /\ UNCHANGED <<song_lyrics, words_to_guess, lyric_time, target, recursion_depth,
                   ret, via, attempts, s_words, n_words>>
    /\ UNCHANGED <<handler_vars, plumbing_vars>>

\* otherwise: extract_lyric_to_guess(df_lyrics, words_to_guess, recursion_depth=0)
GetLyricsCall ==
    /\ pc = "request"
    /\ entry = "get_lyrics"
    /\ Len(song_lyrics) > 0
    /\ ~count_words_raises(words_column(DataFrame(song_lyrics)))
    /\ lyric_time = NoTime
    /\ ~zero_mode(words_to_guess)
    /\ df' = df_lyrics
    /\ count_calls' = count_calls + 1
    /\ target' = words_to_guess
    /\ recursion_depth' = 0
    /\ pc' = "extract"
    /\ UNCHANGED <<song_lyrics, words_to_guess, lyric_time, ret, via, attempts,
                   list_lyrics, s_words, n_words>>
    /\ UNCHANGED <<handler_vars, plumbing_vars>>

----------------------------------------------------------------------------
(* extract_lyric_to_guess(df, target, recursion_depth): one action per branch *)

\* recursion_depth >= MAX_RECURSION_DEPTH: return df.iloc[:1], 1
ExtractDepthCap ==
    /\ pc = "extract"
    /\ depth_limit_reached(recursion_depth)
    /\ ret' = fallback(df)
    /\ via' = "depth_cap"
    /\ pc' = "returned"
    /\ UNCHANGED <<song_lyrics, words_to_guess, lyric_time, df, target, recursion_depth,
                   attempts, count_calls, list_lyrics, s_words, n_words>>
    /\ UNCHANGED <<handler_vars, plumbing_vars>>

\* count_words at line 373 raises: the exception leaves the selector, through
\* every enclosing call of the recursion
ExtractCountError ==
    /\ pc = "extract"
    /\ ~depth_limit_reached(recursion_depth)
    /\ count_words_raises(words_column(df))
    /\ count_calls' = count_calls + 1
    /\ ret' = Raised
    /\ via' = "raise"
    /\ pc' = "returned"
    /\ UNCHANGED <<song_lyrics, words_to_guess, lyric_time, df, target, recursion_depth,
                   attempts, list_lyrics, s_words, n_words>>
    /\ UNCHANGED <<handler_vars, plumbing_vars>>

\* candidates found: return guess_candidates.sample(1), words_to_guess
ExtractMatch ==
    /\ pc = "extract"
    /\ ~depth_limit_reached(recursion_depth)
    /\ ~count_words_raises(words_column(df))
    /\ df' = set_word_count(df)
    /\ count_calls' = count_calls + 1
    /\ attempts' = attempts + 1
    /\ ~empty(guess_candidates(df', target))
    /\ ret' \in sample_one(guess_candidates(df', target), target)
    /\ via' = "match"
    /\ pc' = "returned"
    /\ UNCHANGED <<song_lyrics, words_to_guess, lyric_time, target, recursion_depth,
                   list_lyrics, s_words, n_words>>
    /\ UNCHANGED <<handler_vars, plumbing_vars>>

\* no candidate and words_to_guess == 1: return df.iloc[:1], 1
ExtractFloor ==
    /\ pc = "extract"
    /\ ~depth_limit_reached(recursion_depth)
    /\ ~count_words_raises(words_column(df))
    /\ df' = set_word_count(df)
    /\ count_calls' = count_calls + 1
    /\ attempts' = attempts + 1
    /\ empty(guess_candidates(df', target))
    /\ target = 1
    /\ ret' = fallback(df')
    /\ via' = "floor"
    /\ pc' = "returned"
    /\ UNCHANGED <<song_lyrics, words_to_guess, lyric_time, target, recursion_depth,
                   list_lyrics, s_words, n_words>>
    /\ UNCHANGED <<handler_vars, plumbing_vars>>

\* the retry stepping the target down by two
ExtractRetry_by_two ==
    /\ pc = "extract"
    /\ ~depth_limit_reached(recursion_depth)
    /\ ~count_words_raises(words_column(df))
    /\ df' = set_word_count(df)
    /\ count_calls' = count_calls + 1
    /\ attempts' = attempts + 1
    /\ empty(guess_candidates(df', target))
    /\ target # 1
    /\ target' = target - 2
    /\ recursion_depth' = recursion_depth + 1
    /\ UNCHANGED <<song_lyrics, words_to_guess, lyric_time, pc, ret, via,
                   list_lyrics, s_words, n_words>>
    /\ UNCHANGED <<handler_vars, plumbing_vars>>

\* no candidate otherwise: extract_lyric_to_guess(df, words_to_guess-1, recursion_depth+1)
ExtractRetry ==
    /\ pc = "extract"
    /\ ~depth_limit_reached(recursion_depth)
    /\ ~count_words_raises(words_column(df))
    /\ df' = set_word_count(df)
    /\ count_calls' = count_calls + 1
    /\ attempts' = attempts + 1
    /\ empty(guess_candidates(df', target))
    /\ target # 1
    /\ target' = target - 1
    /\ recursion_depth' = recursion_depth + 1
    /\ UNCHANGED <<song_lyrics, words_to_guess, lyric_time, pc, ret, via,
                   list_lyrics, s_words, n_words>>
    /\ UNCHANGED <<handler_vars, plumbing_vars>>

\* back in get_lyrics: the try block's to_dict, or the except block's first line
GetLyricsReturn ==
    /\ pc = "returned"
    /\ entry = "get_lyrics"
    /\ list_lyrics' =
          IF ret.status = "ok"
          THEN [status |-> "ok", lyrics |-> to_dict(df_lyrics),
                lyricsToGuess |-> to_dict(ret.lines),
                words_to_guess |-> ret.words_to_guess]
          ELSE [status |-> "ok", lyrics |-> to_dict(df_lyrics),
                lyricsToGuess |-> except_fallback(df).lyricsToGuess,
                words_to_guess |-> except_fallback(df).words_to_guess]
    /\ pc' = "done"
    /\ UNCHANGED <<song_lyrics, words_to_guess, lyric_time, df, target, recursion_depth,
                   ret, via, attempts, count_calls, s_words, n_words>>
    /\ UNCHANGED <<handler_vars, plumbing_vars>>

Next ==
    \/ GetLyricsNoLyrics
    \/ GetLyricsSpecific
    \/ GetLyricsZero
    \/ GetLyricsCall
    \/ ExtractDepthCap
    \/ ExtractMatch
    \/ ExtractFloor
    \/ ExtractRetry
    \/ GetLyricsReturn

Spec == Init /\ [][Next]_vars

----------------------------------------------------------------------------
(* get_lyrics_internal, the 'fetch' operation of /api/lyrics-management *)

\* the error dictionary of the outer except block and of line 1207
ErrorResponse == [NoResponse EXCEPT !.status = "error"]

\* song and song.lyrics found: the frame of line 1170, without word_count,
\* and the listing of line 1173
InternalStored ==
    /\ pc = "request"
    /\ entry = "get_lyrics_internal"
    /\ Len(song_lyrics) > 0
    /\ df' = DataFrame(song_lyrics)
    /\ list_lyrics' = [NoResponse EXCEPT !.lyrics = song_lyrics]
    /\ pc' = "dispatch"
    /\ UNCHANGED <<song_lyrics, words_to_guess, lyric_time, target, recursion_depth,
                   ret, via, attempts, count_calls, s_words, n_words>>
    /\ UNCHANGED <<handler_vars, plumbing_vars>>

\* transcripts the lyrics provider can answer with
ProviderTranscripts ==
    { <<[startTimeMs |-> 100000, words |-> Txt_a]>>,
      <<[startTimeMs |-> 5000, words |-> Txt_eight],
        [startTimeMs |-> 100000, words |-> Txt_jaimetoi]>> }

\* nothing stored and the provider raises, or gives None or an empty frame:
\* the error dictionary
InternalFetchFailed ==
    /\ pc = "request"
    /\ entry = "get_lyrics_internal"
    /\ Len(song_lyrics) = 0
    /\ list_lyrics' = ErrorResponse
    /\ pc' = "done"
    /\ UNCHANGED <<song_lyrics, words_to_guess, lyric_time, df, target, recursion_depth,
                   ret, via, attempts, count_calls, s_words, n_words>>
    /\ UNCHANGED <<handler_vars, plumbing_vars>>

\* nothing stored and the provider answers: lines 1204-1209
InternalFetched ==
    /\ pc = "request"
    /\ entry = "get_lyrics_internal"
    /\ Len(song_lyrics) = 0
    /\ \E t \in ProviderTranscripts :
          /\ spotify_lyrics' = t
          /\ df' = DataFrame(t)
          /\ list_lyrics' = [NoResponse EXCEPT !.lyrics = to_dict(DataFrame(t))]
    /\ pc' = "dispatch"
    /\ UNCHANGED <<song_lyrics, words_to_guess, lyric_time, target, recursion_depth,
                   ret, via, attempts, count_calls, s_words, n_words, entry,
                   arg_lyric_time, manage>>
    /\ UNCHANGED plumbing_vars

\* extract_specific_lyric counts the words of the rows it selected
specific_raises(d, t) ==
    /\ "word_count" \notin df_filtered(d, t).columns
    /\ count_words_raises(words_column(df_filtered(d, t)))

\* lyric_time given: extract_specific_lyric on the frame without word_count
InternalSpecific ==
    /\ pc = "dispatch"
    /\ lyric_time # NoTime
    /\ ~specific_raises(df, lyric_time[1])
    /\ count_calls' = count_calls + 1
    /\ ret' = extract_specific_lyric(df, lyric_time[1])
    /\ via' = IF empty(exact_rows(df, lyric_time[1])) THEN "nearest" ELSE "exact"
    /\ list_lyrics' = [list_lyrics EXCEPT !.status = "ok",
                                          !.lyricsToGuess = to_dict(ret'.lines),
                                          !.words_to_guess = ret'.words_to_guess]
    /\ pc' = "done"
    /\ UNCHANGED <<song_lyrics, words_to_guess, lyric_time, df, target, recursion_depth,
                   attempts, s_words, n_words>>
    /\ UNCHANGED <<handler_vars, plumbing_vars>>

\* the count inside extract_specific_lyric raises, outside any inner try:
\* the outer except block answers with the error dictionary
InternalSpecificError ==
    /\ pc = "dispatch"
    /\ lyric_time # NoTime
    /\ specific_raises(df, lyric_time[1])
    /\ count_calls' = count_calls + 1
    /\ list_lyrics' = ErrorResponse
    /\ pc' = "done"
    /\ UNCHANGED <<song_lyrics, words_to_guess, lyric_time, df, target, recursion_depth,
                   ret, via, attempts, s_words, n_words>>
    /\ UNCHANGED <<handler_vars, plumbing_vars>>

\* words_to_guess == 0: no line selected
InternalZero ==
    /\ pc = "dispatch"
    /\ lyric_time = NoTime
    /\ zero_mode(words_to_guess)
    /\ list_lyrics' = [list_lyrics EXCEPT !.status = "ok",
                                          !.lyricsToGuess = <<>>,
                                          !.words_to_guess = 0]
    /\ pc' = "done"
    /\ UNCHANGED <<song_lyrics, words_to_guess, lyric_time, df, target, recursion_depth,
                   ret, via, attempts, count_calls, s_words, n_words>>
    /\ UNCHANGED <<handler_vars, plumbing_vars>>

\* otherwise: extract_lyric_to_guess(df_lyrics, words_to_guess, recursion_depth=0)
InternalCall ==
    /\ pc = "dispatch"
    /\ lyric_time = NoTime
    /\ ~zero_mode(words_to_guess)
    /\ target' = words_to_guess
    /\ recursion_depth' = 0
    /\ pc' = "extract"
    /\ UNCHANGED <<song_lyrics, words_to_guess, lyric_time, df, ret, via, attempts,
                   count_calls, list_lyrics, s_words, n_words>>
    /\ UNCHANGED <<handler_vars, plumbing_vars>>

\* back in get_lyrics_internal: the try block's to_dict, or the except block's
\* first line of the frame
InternalReturn ==
    /\ pc = "returned"
    /\ entry = "get_lyrics_internal"
    /\ list_lyrics' =
          IF ret.status = "ok"
          THEN [list_lyrics EXCEPT !.status = "ok",
                                   !.lyricsToGuess = to_dict(ret.lines),
                                   !.words_to_guess = ret.words_to_guess]
          ELSE [list_lyrics EXCEPT !.status = "ok",
                                   !.lyricsToGuess = except_fallback(df).lyricsToGuess,
                                   !.words_to_guess = except_fallback(df).words_to_guess]
    /\ pc' = "done"
    /\ UNCHANGED <<song_lyrics, words_to_guess, lyric_time, df, target, recursion_depth,
                   ret, via, attempts, count_calls, s_words, n_words>>
    /\ UNCHANGED <<handler_vars, plumbing_vars>>

\* lines of the stored transcripts, a null words value among them
HandlerLines == [startTimeMs : {5000, 100000}, words : {Txt_a, Txt_eight, NullText}]

HandlerTranscripts == UNION {[1..n -> HandlerLines] : n \in 0..MaxLines}

\* both handlers, on transcripts that may hold a null words value
InitHandlers ==
    /\ entry \in {"get_lyrics", "get_lyrics_internal"}
    /\ song_lyrics \in HandlerTranscripts
    /\ words_to_guess \in {-1, 0, 1, 5}
    /\ lyric_time \in {NoTime, <<5000>>, <<60000>>}
    /\ spotify_lyrics = <<>>
    /\ pc = "request"
    /\ df = DataFrame(<<>>)
    /\ target = 0
    /\ recursion_depth = 0
    /\ ret = NoReturn
    /\ via = None
    /\ attempts = 0
    /\ count_calls = 0
    /\ list_lyrics = NoResponse
    /\ s_words = <<>>
    /\ n_words = 0
    /\ arg_lyric_time = supplied(lyric_time)
    /\ manage = NoManage
    /\ PlumbingIdle

NextHandlers ==
    \/ Next
    \/ GetLyricsCountError
    \/ ExtractCountError
    \/ InternalStored
    \/ InternalFetchFailed
    \/ InternalFetched
    \/ InternalSpecific
    \/ InternalSpecificError
    \/ InternalZero
    \/ InternalCall
    \/ InternalReturn

SpecHandlers == InitHandlers /\ [][NextHandlers]_vars

----------------------------------------------------------------------------
(* The lyric_time argument of get_lyrics and get_lyrics_internal *)

DigitValue ==
    [c \in {"0", "1", "2", "3", "4", "5", "6", "7", "8", "9"} |->
        CASE c = "0" -> 0 [] c = "1" -> 1 [] c = "2" -> 2 [] c = "3" -> 3 [] c = "4" -> 4
          [] c = "5" -> 5 [] c = "6" -> 6 [] c = "7" -> 7 [] c = "8" -> 8 [] c = "9" -> 9]

\* int(s) raises ValueError: s is not a run of decimal digits
int_raises(chars) ==
    \/ Len(chars) = 0
    \/ \E i \in 1..Len(chars) : chars[i] \notin DOMAIN DigitValue

RECURSIVE int_of(_)
\* int(s) of a run of decimal digits
int_of(chars) ==
    IF Len(chars) = 0 THEN 0
    ELSE 10 * int_of(SubSeq(chars, 1, Len(chars) - 1)) + DigitValue[chars[Len(chars)]]

\* if specific_lyric_time:
truthy(arg) ==
    \/ arg.kind = "str" /\ Len(arg.chars) > 0
    \/ arg.kind = "int" /\ arg.value # 0

\* the conversion applied to every argument that is not None, integer 0 included
parse_lyric_time_always(arg) ==
    IF arg.kind = "int" /\ arg.value # 0 THEN <<arg.value>>
    ELSE IF arg.kind = "str" /\ ~int_raises(arg.chars) THEN <<int_of(arg.chars)>>
    ELSE NoTime

\* specific_lyric_time after the conversion, for an argument other than ""
parse_lyric_time(arg) ==
    IF truthy(arg)
    THEN IF arg.kind = "int" THEN <<arg.value>>
         ELSE IF int_raises(arg.chars) THEN NoTime
         ELSE <<int_of(arg.chars)>>
    ELSE IF arg.kind = "int" THEN <<arg.value>>
    ELSE NoTime

\* the arguments are read and converted
ParseArgs ==
    /\ pc = "args"
    /\ arg_lyric_time # StrArg(<<>>)
    /\ lyric_time' = parse_lyric_time(arg_lyric_time)
    /\ pc' = "request"
    /\ UNCHANGED <<song_lyrics, words_to_guess, df, target, recursion_depth, ret, via,
                   attempts, count_calls, list_lyrics, s_words, n_words>>
    /\ UNCHANGED <<handler_vars, plumbing_vars>>

\* lyric_time is the empty string: it is not converted and is not None, so the
\* handler takes the time-based branch, where startTimeMs - "" raises; whatever
\* the song holds the request ends in the outer except with an error
LyricTimeEmptyString ==
    /\ pc = "args"
    /\ arg_lyric_time = StrArg(<<>>)
    /\ list_lyrics' = [NoResponse EXCEPT !.status = "error"]
    /\ pc' = "done"
    /\ UNCHANGED <<song_lyrics, words_to_guess, lyric_time, df, target, recursion_depth,
                   ret, via, attempts, count_calls, s_words, n_words>>
    /\ UNCHANGED <<handler_vars, plumbing_vars>>

\* request.args.get('lyric_time'): absent or a string
QueryArgs ==
    {NoArg, StrArg(<<>>), StrArg(<<"0">>), StrArg(<<"5", "0", "0", "0">>),
     StrArg(<<"a", "b", "c">>)}

\* data.get('specific_lyric_time') of a JSON body: an integer too
JsonArgs == QueryArgs \cup {IntArg(0), IntArg(5000)}

InitModes ==
    /\ entry \in {"get_lyrics", "get_lyrics_internal"}
    /\ song_lyrics \in HandlerTranscripts
    /\ words_to_guess \in {-1, 0, 1, 5}
    /\ arg_lyric_time \in (IF entry = "get_lyrics" THEN QueryArgs ELSE JsonArgs)
    /\ lyric_time = NoTime
    /\ spotify_lyrics = <<>>
    /\ pc = "args"
    /\ df = DataFrame(<<>>)
    /\ target = 0
    /\ recursion_depth = 0
    /\ ret = NoReturn
    /\ via = None
    /\ attempts = 0
    /\ count_calls = 0
    /\ list_lyrics = NoResponse
    /\ s_words = <<>>
    /\ n_words = 0
    /\ manage = NoManage
    /\ PlumbingIdle

NextModes ==
    \/ ParseArgs
    \/ LyricTimeEmptyString
    \/ NextHandlers

SpecModes == InitModes /\ [][NextModes]_vars

----------------------------------------------------------------------------
(* manage_lyrics, operation 'select' *)

\* len(selected_lyric['words'].replace("'", " ").split())
select_word_count(x) == Len(split(replace(x, "'", " ")))

RECURSIVE first_at(_, _, _)
\* the for loop of 'select': the first lyric of all_lyrics from position i on
\* whose startTimeMs is lyric_time, <<>> for none
first_at(all_lyrics, t, i) ==
    IF i > Len(all_lyrics) THEN <<>>
    ELSE IF all_lyrics[i].startTimeMs = t THEN <<all_lyrics[i]>>
    ELSE first_at(all_lyrics, t, i + 1)

\* not lyric_time: None or 0
ManageLyricsSelectReject ==
    /\ pc = "manage"
    /\ manage.operation = "select"
    /\ (manage.lyric_time = NoTime \/ manage.lyric_time = <<0>>)
    /\ manage' = [manage EXCEPT !.status = 400]
    /\ pc' = "selected"
    /\ UNCHANGED <<song_lyrics, words_to_guess, lyric_time, df, target, recursion_depth,
                   ret, via, attempts, count_calls, list_lyrics, s_words, n_words>>
    /\ UNCHANGED <<entry, spotify_lyrics, arg_lyric_time, plumbing_vars>>

\* lyrics_data = get_lyrics_internal(track_id, 0)
ManageLyricsSelectCall ==
    /\ pc = "manage"
    /\ manage.operation = "select"
    /\ ~(manage.lyric_time = NoTime \/ manage.lyric_time = <<0>>)
    /\ entry' = "get_lyrics_internal"
    /\ words_to_guess' = 0
    /\ arg_lyric_time' = NoArg
    /\ lyric_time' = NoTime
    /\ pc' = "request"
    /\ UNCHANGED <<song_lyrics, df, target, recursion_depth, ret, via, attempts,
                   count_calls, list_lyrics, s_words, n_words>>
    /\ UNCHANGED <<spotify_lyrics, manage, plumbing_vars>>

\* 'error' in lyrics_data, or no lyric of the listing starts at lyric_time
ManageLyricsSelectNotFound ==
    /\ pc = "done"
    /\ manage.operation = "select"
    /\ \/ list_lyrics.status = "error"
       \/ first_at(list_lyrics.lyrics, manage.lyric_time[1], 1) = <<>>
    /\ manage' = [manage EXCEPT !.status = 404]
    /\ pc' = "selected"
    /\ UNCHANGED <<song_lyrics, words_to_guess, lyric_time, df, target, recursion_depth,
                   ret, via, attempts, count_calls, list_lyrics, s_words, n_words>>
    /\ UNCHANGED <<entry, spotify_lyrics, arg_lyric_time, plumbing_vars>>

\* the words of the selected lyric are null: replace raises, the outer except
\* answers 500
ManageLyricsSelectError ==
    /\ pc = "done"
    /\ manage.operation = "select"
    /\ list_lyrics.status # "error"
    /\ first_at(list_lyrics.lyrics, manage.lyric_time[1], 1) # <<>>
    /\ first_at(list_lyrics.lyrics, manage.lyric_time[1], 1)[1].words = NullText
    /\ manage' = [manage EXCEPT !.status = 500]
    /\ pc' = "selected"
    /\ UNCHANGED <<song_lyrics, words_to_guess, lyric_time, df, target, recursion_depth,
                   ret, via, attempts, count_calls, list_lyrics, s_words, n_words>>
    /\ UNCHANGED <<entry, spotify_lyrics, arg_lyric_time, plumbing_vars>>

\* the selected lyric and its word count
ManageLyricsSelect ==
    /\ pc = "done"
    /\ manage.operation = "select"
    /\ list_lyrics.status # "error"
    /\ first_at(list_lyrics.lyrics, manage.lyric_time[1], 1) # <<>>
    /\ first_at(list_lyrics.lyrics, manage.lyric_time[1], 1)[1].words # NullText
    /\ manage' =
          [manage EXCEPT
              !.status = 200,
              !.selected_lyric = first_at(list_lyrics.lyrics, manage.lyric_time[1], 1),
              !.word_count =
                  select_word_count(
                      first_at(list_lyrics.lyrics, manage.lyric_time[1], 1)[1].words)]
    /\ pc' = "selected"
    /\ UNCHANGED <<song_lyrics, words_to_guess, lyric_time, df, target, recursion_depth,
                   ret, via, attempts, count_calls, list_lyrics, s_words, n_words>>
    /\ UNCHANGED <<entry, spotify_lyrics, arg_lyric_time, plumbing_vars>>

\* lines of the songs a lyric is selected from
SelectLines ==
    [startTimeMs : {5000, 100000}, words : {Txt_a, Txt_jaimetoi, NullText}]

SelectTranscripts == UNION {[1..n -> SelectLines] : n \in 0..MaxLines}

InitSelect ==
    /\ entry = "manage_lyrics"
    /\ manage \in {[NoManage EXCEPT !.operation = "select", !.lyric_time = t] :
                      t \in {NoTime, <<0>>, <<5000>>, <<60000>>, <<100000>>}}
    /\ song_lyrics \in SelectTranscripts
    /\ words_to_guess = DEFAULT_WORDS_TO_GUESS
    /\ arg_lyric_time = NoArg
    /\ lyric_time = NoTime
    /\ spotify_lyrics = <<>>
    /\ pc = "manage"
    /\ df = DataFrame(<<>>)
    /\ target = 0
    /\ recursion_depth = 0
    /\ ret = NoReturn
    /\ via = None
    /\ attempts = 0
    /\ count_calls = 0
    /\ list_lyrics = NoResponse
    /\ s_words = <<>>
    /\ n_words = 0
    /\ PlumbingIdle

NextSelect ==
    \/ ManageLyricsSelectReject
    \/ ManageLyricsSelectCall
    \/ InternalStored
    \/ InternalFetchFailed
    \/ InternalFetched
    \/ InternalZero
    \/ ManageLyricsSelectNotFound
    \/ ManageLyricsSelectError
    \/ ManageLyricsSelect

SpecSelect == InitSelect /\ [][NextSelect]_vars

----------------------------------------------------------------------------
(* The word counter on its own, over every short text *)

Alphabet == {"a", "j", "'", "-", " ", "\t", ","}

Txt_jaime == <<"j", "'", "a", "i", "m", "e">>

WordTexts ==
    UNION {[1..n -> Alphabet] : n \in 0..MaxLen} \cup {Txt_jaime, Txt_jaimetoi}

InitWords ==
    /\ s_words \in WordTexts
    /\ n_words = 0
    /\ pc = "count"
    /\ song_lyrics = <<>>
    /\ words_to_guess = 0
    /\ lyric_time = NoTime
    /\ df = DataFrame(<<>>)
    /\ target = 0
    /\ recursion_depth = 0
    /\ ret = NoReturn
    /\ via = None
    /\ attempts = 0
    /\ count_calls = 0
    /\ list_lyrics = NoResponse
    /\ entry = "count_words"
    /\ spotify_lyrics = <<>>
    /\ arg_lyric_time = supplied(lyric_time)
    /\ manage = NoManage
    /\ PlumbingIdle

\* count_words on a one-line column
CountWords ==
    /\ pc = "count"
    /\ n_words' = count_words(<<s_words>>)[1]
    /\ count_calls' = count_calls + 1
    /\ pc' = "counted"
    /\ UNCHANGED <<song_lyrics, words_to_guess, lyric_time, df, target, recursion_depth,
                   ret, via, attempts, list_lyrics, s_words>>
    /\ UNCHANGED <<handler_vars, plumbing_vars>>

NextWords == CountWords

SpecWords == InitWords /\ [][NextWords]_vars

----------------------------------------------------------------------------
(* The database endpoints add_song and add_songs_to_category *)

\* longest song_ids list of a request
MaxIds == 3

\* the tracks the providers know, and an id that is no song anywhere
SongIds == {"s1", "s2"}

UnknownSong == "s9"

CategoryIds == {"c1", "c2"}

UnknownCategory == "c9"

Range(f) == {f[i] : i \in DOMAIN f}

\* the lyric selection is not running
LyricsIdle ==
    /\ song_lyrics = <<>>
    /\ words_to_guess = 0
    /\ lyric_time = NoTime
    /\ pc = "idle"
    /\ df = DataFrame(<<>>)
    /\ target = 0
    /\ recursion_depth = 0
    /\ ret = NoReturn
    /\ via = None
    /\ attempts = 0
    /\ count_calls = 0
    /\ list_lyrics = NoResponse
    /\ s_words = <<>>
    /\ n_words = 0
    /\ spotify_lyrics = <<>>
    /\ arg_lyric_time = NoArg
    /\ manage = NoManage

lyric_vars == <<song_lyrics, words_to_guess, lyric_time, pc, df, target, recursion_depth,
                ret, via, attempts, count_calls, list_lyrics, s_words, n_words>>

\* Python truth of an optional string
falsy(x) == x \in {None, ""}

NoRequest ==
    [op |-> None, track_name |-> None, artist |-> None, track_id |-> None,
     category_ids |-> <<>>, category_id |-> None, song_ids_kind |-> None,
     song_ids |-> <<>>]

\* jsonify(...), status: the song answered, already_exists and songs_added; for
\* fetch_and_store_lyrics the value returned
Answer(status) ==
    [status |-> status, song |-> None, already_exists |-> FALSE, songs_added |-> <<>>,
     returned |-> FALSE]

CategoryLists == {<<>>, <<"c1">>, <<UnknownCategory, "c2", "c2">>}

AddSongRequests ==
    {[NoRequest EXCEPT !.op = "add_song", !.track_name = n, !.artist = a,
                       !.track_id = t, !.category_ids = c] :
        n \in {None, "t"}, a \in {None, "a"}, t \in {None, "s1"}, c \in CategoryLists}

\* add_song answers 400 when neither a track id nor a name with an artist came
add_song_rejects(r) == (falsy(r.track_name) \/ falsy(r.artist)) /\ falsy(r.track_id)

\* SpotifyDriver.search_track(self, track_name, artist) behind refresh_login's
\* wrapper(*args): a call binds exactly two arguments after self
search_track(args) == IF Len(args) = 2 THEN "items" ELSE "TypeError"

RECURSIVE add_categories_loop(_, _, _, _, _)
\* search_and_add_song: the loop over category_ids from position i on
add_categories_loop(cats, rows, song, category_ids, i) ==
    IF i > Len(category_ids) THEN rows
    ELSE LET cat_id == category_ids[i]
             add == cat_id \in cats /\ <<song, cat_id>> \notin Range(rows)
         IN  add_categories_loop(cats,
                                 IF add THEN Append(rows, <<song, cat_id>>) ELSE rows,
                                 song, category_ids, i + 1)

\* what LrcLibDriver.get_lyrics(track_name, artist_name) gives for a track it has
LrcLibLyrics == <<[startTimeMs |-> 100000, words |-> Txt_eight]>>

\* a transcript stored before, other than the provider's
OldLyrics == <<[startTimeMs |-> 5000, words |-> Txt_a]>>

\* the test left out: the lyrics are always taken for missing
no_lyrics_always(lyrics) == TRUE

\* not song.lyrics
no_lyrics(lyrics) == Len(lyrics) = 0

AddSongReject ==
    /\ \E r \in AddSongRequests :
          /\ add_song_rejects(r)
          /\ request' = r
    /\ response' = Answer(400)
    /\ UNCHANGED <<db_songs, db_categories, db_song_category, db_lyrics>>
    /\ UNCHANGED <<lyric_vars, handler_vars, relay_vars>>

\* with a track id, search_and_add_song calls search_track(track_id); the call
\* raises, the except returns None and add_song answers 500
AddSongByTrackId ==
    /\ \E r \in AddSongRequests :
          /\ ~add_song_rejects(r)
          /\ ~falsy(r.track_id)
          /\ search_track(<<r.track_id>>) = "TypeError"
          /\ request' = r
    /\ response' = Answer(500)
    /\ UNCHANGED <<db_songs, db_categories, db_song_category, db_lyrics>>
    /\ UNCHANGED <<lyric_vars, handler_vars, relay_vars>>

\* search(track_name, artist) or the lyrics driver raises, or gives no lyrics
AddSongProviderFailed ==
    /\ \E r \in AddSongRequests :
          /\ ~add_song_rejects(r)
          /\ falsy(r.track_id)
          /\ request' = r
    /\ response' = Answer(500)
    /\ UNCHANGED <<db_songs, db_categories, db_song_category, db_lyrics>>
    /\ UNCHANGED <<lyric_vars, handler_vars, relay_vars>>

\* search(track_name, artist) found track t and the lyrics driver its lyrics
AddSongStored ==
    /\ \E r \in AddSongRequests, t \in SongIds :
          /\ ~add_song_rejects(r)
          /\ falsy(r.track_id)
          /\ request' = r
          /\ db_songs' = db_songs \cup {t}
          /\ db_song_category' =
                add_categories_loop(db_categories, db_song_category, t, r.category_ids, 1)
          /\ db_lyrics' =
                IF t \notin db_songs \/ no_lyrics(db_lyrics[t])
                THEN [db_lyrics EXCEPT ![t] = to_dict(DataFrame(LrcLibLyrics))]
                ELSE db_lyrics
          /\ response' = [Answer(200) EXCEPT !.song = t,
                                             !.already_exists = (t \in db_songs)]
    /\ UNCHANGED db_categories
    /\ UNCHANGED <<lyric_vars, handler_vars, relay_vars>>

\* category.songs
category_songs(rows, category_id) ==
    {r[1] : r \in {x \in Range(rows) : x[2] = category_id}}

\* the association test left out
not_in_category_always(rows, song_id, category_id) == TRUE

\* if song not in category.songs
not_in_category(rows, song_id, category_id) ==
    song_id \notin category_songs(rows, category_id)

RECURSIVE add_songs_loop(_, _, _, _, _)
\* add_songs_to_category: the loop over song_ids from position i on
add_songs_loop(songs, rows, category_id, song_ids, i) ==
    IF i > Len(song_ids) THEN [rows |-> rows, songs_added |-> <<>>]
    ELSE LET song_id == song_ids[i]
             add == song_id \in songs /\ not_in_category(rows, song_id, category_id)
             rest == add_songs_loop(songs,
                                    IF add THEN Append(rows, <<song_id, category_id>>)
                                           ELSE rows,
                                    category_id, song_ids, i + 1)
         IN  [rows |-> rest.rows,
              songs_added |-> IF add THEN <<song_id>> \o rest.songs_added
                                     ELSE rest.songs_added]

SongIdLists == UNION {[1..n -> SongIds \cup {UnknownSong}] : n \in 0..MaxIds}

AddSongsRequests ==
    {[NoRequest EXCEPT !.op = "add_songs_to_category", !.category_id = c,
                       !.song_ids_kind = "list", !.song_ids = l] :
        c \in CategoryIds \cup {UnknownCategory}, l \in SongIdLists}
    \cup
    {[NoRequest EXCEPT !.op = "add_songs_to_category", !.category_id = c,
                       !.song_ids_kind = k] :
        c \in CategoryIds \cup {UnknownCategory}, k \in {"missing", "null"}}

\* 'song_ids' not in data
AddSongsToCategoryMissing ==
    /\ \E r \in AddSongsRequests :
          /\ r.song_ids_kind = "missing"
          /\ request' = r
    /\ response' = Answer(400)
    /\ UNCHANGED <<db_songs, db_categories, db_song_category, db_lyrics>>
    /\ UNCHANGED <<lyric_vars, handler_vars, relay_vars>>

\* Category.query.get(category_id) is None
AddSongsToCategoryNotFound ==
    /\ \E r \in AddSongsRequests :
          /\ r.song_ids_kind # "missing"
          /\ r.category_id \notin db_categories
          /\ request' = r
    /\ response' = Answer(404)
    /\ UNCHANGED <<db_songs, db_categories, db_song_category, db_lyrics>>
    /\ UNCHANGED <<lyric_vars, handler_vars, relay_vars>>

\* song_ids is null: the for statement raises, the session is rolled back
AddSongsToCategoryError ==
    /\ \E r \in AddSongsRequests :
          /\ r.song_ids_kind = "null"
          /\ r.category_id \in db_categories
          /\ request' = r
    /\ response' = Answer(500)
    /\ UNCHANGED <<db_songs, db_categories, db_song_category, db_lyrics>>
    /\ UNCHANGED <<lyric_vars, handler_vars, relay_vars>>

AddSongsToCategory ==
    /\ \E r \in AddSongsRequests :
          /\ r.song_ids_kind = "list"
          /\ r.category_id \in db_categories
          /\ request' = r
          /\ LET done == add_songs_loop(db_songs, db_song_category, r.category_id,
                                        r.song_ids, 1)
             IN  /\ db_song_category' = done.rows
                 /\ response' = [Answer(200) EXCEPT !.songs_added = done.songs_added]
    /\ UNCHANGED <<db_songs, db_categories, db_lyrics>>
    /\ UNCHANGED <<lyric_vars, handler_vars, relay_vars>>

InitStore ==
    /\ LyricsIdle
    /\ entry = "database"
    /\ db_songs \in SUBSET SongIds
    /\ db_categories = CategoryIds
    /\ db_song_category = <<>>
    /\ db_lyrics = [s \in SongIds |-> IF s \in db_songs THEN LrcLibLyrics ELSE <<>>]
    /\ request = NoRequest
    /\ response = Answer(0)
    /\ sockets = <<>>
    /\ room_karaoke = {}
    /\ event = [name |-> "None"]
    /\ delivered = <<>>

NextStore ==
    \/ AddSongReject
    \/ AddSongByTrackId
    \/ AddSongProviderFailed
    \/ AddSongStored
    \/ AddSongsToCategoryMissing
    \/ AddSongsToCategoryNotFound
    \/ AddSongsToCategoryError
    \/ AddSongsToCategory

SpecStore == InitStore /\ [][NextStore]_vars

----------------------------------------------------------------------------
(* The database endpoints delete_category and delete_song *)

\* every association dropped
without_category_all(rows, category_id) == <<>>

\* category.songs = []: the rows of song_category without those of the category
without_category(rows, category_id) == SelectSeq(rows, LAMBDA r : r[2] # category_id)

\* song.categories = []: the rows of song_category without those of the song
without_song(rows, song_id) == SelectSeq(rows, LAMBDA r : r[1] # song_id)

DeleteCategoryNotFound ==
    /\ \E c \in CategoryIds \cup {UnknownCategory} :
          /\ c \notin db_categories
          /\ request' = [NoRequest EXCEPT !.op = "delete_category", !.category_id = c]
    /\ response' = Answer(404)
    /\ UNCHANGED <<db_songs, db_categories, db_song_category, db_lyrics>>
    /\ UNCHANGED <<lyric_vars, handler_vars, relay_vars>>

DeleteCategory ==
    /\ \E c \in CategoryIds \cup {UnknownCategory} :
          /\ c \in db_categories
          /\ request' = [NoRequest EXCEPT !.op = "delete_category", !.category_id = c]
          /\ db_song_category' = without_category(db_song_category, c)
          /\ db_categories' = db_categories \ {c}
    /\ response' = Answer(200)
    /\ UNCHANGED <<db_songs, db_lyrics>>
    /\ UNCHANGED <<lyric_vars, handler_vars, relay_vars>>

DeleteSongNotFound ==
    /\ \E s \in SongIds \cup {UnknownSong} :
          /\ s \notin db_songs
          /\ request' = [NoRequest EXCEPT !.op = "delete_song", !.track_id = s]
    /\ response' = Answer(404)
    /\ UNCHANGED <<db_songs, db_categories, db_song_category, db_lyrics>>
    /\ UNCHANGED <<lyric_vars, handler_vars, relay_vars>>

DeleteSong ==
    /\ \E s \in SongIds \cup {UnknownSong} :
          /\ s \in db_songs
          /\ request' = [NoRequest EXCEPT !.op = "delete_song", !.track_id = s]
          /\ db_song_category' = without_song(db_song_category, s)
          /\ db_songs' = db_songs \ {s}
          /\ db_lyrics' = [db_lyrics EXCEPT ![s] = <<>>]
    /\ response' = Answer(200)
    /\ UNCHANGED db_categories
    /\ UNCHANGED <<lyric_vars, handler_vars, relay_vars>>

RECURSIVE SeqOf(_)
\* the rows of a set of associations, in some order
SeqOf(S) ==
    IF S = {} THEN <<>>
    ELSE LET x == CHOOSE y \in S : TRUE IN <<x>> \o SeqOf(S \ {x})

\* a store holding songs, categories and any associations between them
InitDelete ==
    /\ LyricsIdle
    /\ entry = "database"
    /\ db_songs \in SUBSET SongIds
    /\ db_categories \in SUBSET CategoryIds
    /\ \E A \in SUBSET (db_songs \X db_categories) : db_song_category = SeqOf(A)
    /\ db_lyrics = [s \in SongIds |-> IF s \in db_songs THEN LrcLibLyrics ELSE <<>>]
    /\ request = NoRequest
    /\ response = Answer(0)
    /\ sockets = <<>>
    /\ room_karaoke = {}
    /\ event = [name |-> "None"]
    /\ delivered = <<>>

NextDelete ==
    \/ DeleteCategoryNotFound
    \/ DeleteCategory
    \/ DeleteSongNotFound
    \/ DeleteSong

SpecDelete == InitDelete /\ [][NextDelete]_vars

----------------------------------------------------------------------------
(* fetch_and_store_lyrics *)

\* LrcLibDriver.get_lyrics(self, track_name, artist_name): a call binds
\* exactly two arguments after self
lrclib_get_lyrics(args) == IF Len(args) = 2 THEN "lyrics" ELSE "TypeError"

\* Song.query.get(song_id) is None: return False
FetchAndStoreLyricsUnknown ==
    /\ \E s \in SongIds \cup {UnknownSong} :
          /\ s \notin db_songs
          /\ request' = [NoRequest EXCEPT !.op = "fetch_and_store_lyrics", !.track_id = s]
    /\ response' = [Answer(0) EXCEPT !.returned = FALSE]
    /\ UNCHANGED <<db_songs, db_categories, db_song_category, db_lyrics>>
    /\ UNCHANGED <<lyric_vars, handler_vars, relay_vars>>

\* song.lyrics is there already: return True
FetchAndStoreLyricsSkipped ==
    /\ \E s \in SongIds :
          /\ s \in db_songs
          /\ ~no_lyrics(db_lyrics[s])
          /\ request' = [NoRequest EXCEPT !.op = "fetch_and_store_lyrics", !.track_id = s]
    /\ response' = [Answer(0) EXCEPT !.returned = TRUE]
    /\ UNCHANGED <<db_songs, db_categories, db_song_category, db_lyrics>>
    /\ UNCHANGED <<lyric_vars, handler_vars, relay_vars>>

\* no lyrics stored: self.lyrics_driver.get_lyrics(song_id) is a call of
\* LrcLibDriver.get_lyrics with one argument; it raises, the except rolls
\* back and returns False, and lines 171-180 that store the lyrics never run
FetchAndStoreLyricsFailed ==
    /\ \E s \in SongIds :
          /\ s \in db_songs
          /\ no_lyrics(db_lyrics[s])
          /\ lrclib_get_lyrics(<<s>>) = "TypeError"
          /\ request' = [NoRequest EXCEPT !.op = "fetch_and_store_lyrics", !.track_id = s]
    /\ response' = [Answer(0) EXCEPT !.returned = FALSE]
    /\ UNCHANGED <<db_songs, db_categories, db_song_category, db_lyrics>>
    /\ UNCHANGED <<lyric_vars, handler_vars, relay_vars>>

\* songs with a transcript stored before or with none, one of them in a category
InitFetch ==
    /\ LyricsIdle
    /\ entry = "database"
    /\ db_songs \in SUBSET SongIds
    /\ db_categories = CategoryIds
    /\ db_song_category \in {SeqOf(A) : A \in SUBSET (db_songs \X {"c2"})}
    /\ db_lyrics \in {l \in [SongIds -> {<<>>, OldLyrics}] :
                         \A s \in SongIds \ db_songs : l[s] = <<>>}
    /\ request = NoRequest
    /\ response = Answer(0)
    /\ sockets = <<>>
    /\ room_karaoke = {}
    /\ event = [name |-> "None"]
    /\ delivered = <<>>

NextFetch ==
    \/ FetchAndStoreLyricsUnknown
    \/ FetchAndStoreLyricsSkipped
    \/ FetchAndStoreLyricsFailed
    \/ AddSongReject
    \/ AddSongByTrackId
    \/ AddSongProviderFailed
    \/ AddSongStored

SpecFetch == InitFetch /\ [][NextFetch]_vars

----------------------------------------------------------------------------
(* The Socket.IO relay of presenter events to room 'karaoke' *)

\* session ids of the clients, and the payloads they send
Sids == {"p", "q", "r"}

Payloads == {"x", "y"}

\* the presenter events whose handler takes no argument
NoArgEvents ==
    {"show-intro", "play-song", 
     "validate-lyrics", "freeze-lyrics", "reveal-lyrics", "continue-lyrics", "lyrics-loading"}

\* the presenter events whose handler takes the payload as its argument
ArgEvents ==
    {"show-categories", "show-song-list", "goto-song", "propose-lyrics", 
     "lyrics-validation-result", "lyrics-words-count", "update-lyrics-to-guess", 
     "set-perf-mode", "lyrics-data", "lyrics-error"}

NoEvent == [name |-> None, sid |-> None, payload |-> None, handled |-> FALSE]

\* nothing was sent to anyone
Silence == [c \in Sids |-> <<>>]

\* the oldest entry dropped in place of the one asked for: l.pop(0)
remove_head(l, x) == Tail(l)

\* list.remove(x): the list without the first x
RECURSIVE remove(_, _)
remove(l, x) ==
    IF l = <<>> THEN <<>>
    ELSE IF Head(l) = x THEN Tail(l)
    ELSE <<Head(l)>> \o remove(Tail(l), x)

\* an emit that reaches the whole room
recipients_with_sender(room, skip_sid) == room

\* emit(..., room='karaoke', skip_sid=request.sid), and include_self=False
\* alike: the members of the room other than the skipped session
recipients(room, skip_sid) == room \ {skip_sid}

\* emit(name, payload, room='karaoke', skip_sid=sid): one event per recipient
emit(name, payload, sid) ==
    [c \in Sids |-> IF c \in recipients(room_karaoke, sid)
                    THEN <<[name |-> name, payload |-> payload]>>
                    ELSE <<>>]

handle_connect ==
    /\ \E sid \in Sids \ Range(sockets) :
          /\ sockets' = Append(sockets, sid)
          /\ room_karaoke' = room_karaoke \cup {sid}
          /\ event' = [NoEvent EXCEPT !.name = "connect", !.sid = sid, !.handled = TRUE]
    /\ delivered' = Silence
    /\ UNCHANGED <<lyric_vars, handler_vars, store_vars>>

handle_disconnect ==
    /\ \E sid \in Sids :
          /\ room_karaoke' = room_karaoke \ {sid}
          /\ sockets' = IF sid \in Range(sockets) THEN remove(sockets, sid) ELSE sockets
          /\ event' = [NoEvent EXCEPT !.name = "disconnect", !.sid = sid, !.handled = TRUE]
    /\ delivered' = Silence
    /\ UNCHANGED <<lyric_vars, handler_vars, store_vars>>

handle_show_intro ==
    /\ \E sid \in Range(sockets), none \in {None} :
          /\ event' = [name |-> "show-intro", sid |-> sid, payload |-> none, handled |-> TRUE]
          /\ delivered' = emit("to-intro", none, sid)
    /\ UNCHANGED <<sockets, room_karaoke>>
    /\ UNCHANGED <<lyric_vars, handler_vars, store_vars>>

handle_show_categories ==
    /\ \E sid \in Range(sockets), args \in Payloads :
          /\ event' = [name |-> "show-categories", sid |-> sid, payload |-> args, handled |-> TRUE]
          /\ delivered' = emit("to-categories", args, sid)
    /\ UNCHANGED <<sockets, room_karaoke>>
    /\ UNCHANGED <<lyric_vars, handler_vars, store_vars>>

handle_show_song_list ==
    /\ \E sid \in Range(sockets), args \in Payloads :
          /\ event' = [name |-> "show-song-list", sid |-> sid, payload |-> args, handled |-> TRUE]
          /\ delivered' = emit("to-song-list", args, sid)
    /\ UNCHANGED <<sockets, room_karaoke>>
    /\ UNCHANGED <<lyric_vars, handler_vars, store_vars>>

handle_goto_song ==
    /\ \E sid \in Range(sockets), args \in Payloads :
          /\ event' = [name |-> "goto-song", sid |-> sid, payload |-> args, handled |-> TRUE]
          /\ delivered' = emit("to-song", args, sid)
    /\ UNCHANGED <<sockets, room_karaoke>>
    /\ UNCHANGED <<lyric_vars, handler_vars, store_vars>>

handle_play_song ==
    /\ \E sid \in Range(sockets), none \in {None} :
          /\ event' = [name |-> "play-song", sid |-> sid, payload |-> none, handled |-> TRUE]
          /\ delivered' = emit("play", none, sid)
    /\ UNCHANGED <<sockets, room_karaoke>>
    /\ UNCHANGED <<lyric_vars, handler_vars, store_vars>>

handle_propose_lyrics ==
    /\ \E sid \in Range(sockets), args \in Payloads :
          /\ event' = [name |-> "propose-lyrics", sid |-> sid, payload |-> args, handled |-> TRUE]
          /\ delivered' = emit("show-suggested-lyrics", args, sid)
    /\ UNCHANGED <<sockets, room_karaoke>>
    /\ UNCHANGED <<lyric_vars, handler_vars, store_vars>>

handle_validate_lyrics ==
    /\ \E sid \in Range(sockets), none \in {None} :
          /\ event' = [name |-> "validate-lyrics", sid |-> sid, payload |-> none, handled |-> TRUE]
          /\ delivered' = emit("validate-lyrics", none, sid)
    /\ UNCHANGED <<sockets, room_karaoke>>
    /\ UNCHANGED <<lyric_vars, handler_vars, store_vars>>

handle_freeze_lyrics ==
    /\ \E sid \in Range(sockets), none \in {None} :
          /\ event' = [name |-> "freeze-lyrics", sid |-> sid, payload |-> none, handled |-> TRUE]
          /\ delivered' = emit("freeze-lyrics", none, sid)
    /\ UNCHANGED <<sockets, room_karaoke>>
    /\ UNCHANGED <<lyric_vars, handler_vars, store_vars>>

handle_reveal_lyrics ==
    /\ \E sid \in Range(sockets), none \in {None} :
          /\ event' = [name |-> "reveal-lyrics", sid |-> sid, payload |-> none, handled |-> TRUE]
          /\ delivered' = emit("reveal-lyrics", none, sid)
    /\ UNCHANGED <<sockets, room_karaoke>>
    /\ UNCHANGED <<lyric_vars, handler_vars, store_vars>>

handle_continue_lyrics ==
    /\ \E sid \in Range(sockets), none \in {None} :
          /\ event' = [name |-> "continue-lyrics", sid |-> sid, payload |-> none, handled |-> TRUE]
          /\ delivered' = emit("continue-lyrics", none, sid)
    /\ UNCHANGED <<sockets, room_karaoke>>
    /\ UNCHANGED <<lyric_vars, handler_vars, store_vars>>

handle_lyrics_validation_result ==
    /\ \E sid \in Range(sockets), data \in Payloads :
          /\ event' = [name |-> "lyrics-validation-result", sid |-> sid, payload |-> data, handled |-> TRUE]
          /\ delivered' = emit("lyrics-validation-result", data, sid)
    /\ UNCHANGED <<sockets, room_karaoke>>
    /\ UNCHANGED <<lyric_vars, handler_vars, store_vars>>

handle_lyrics_words_count ==
    /\ \E sid \in Range(sockets), data \in Payloads :
          /\ event' = [name |-> "lyrics-words-count", sid |-> sid, payload |-> data, handled |-> TRUE]
          /\ delivered' = emit("lyrics-words-count", data, sid)
    /\ UNCHANGED <<sockets, room_karaoke>>
    /\ UNCHANGED <<lyric_vars, handler_vars, store_vars>>

handle_update_lyrics_to_guess ==
    /\ \E sid \in Range(sockets), data \in Payloads :
          /\ event' = [name |-> "update-lyrics-to-guess", sid |-> sid, payload |-> data, handled |-> TRUE]
          /\ delivered' = emit("lyrics-to-guess-updated", data, sid)
    /\ UNCHANGED <<sockets, room_karaoke>>
    /\ UNCHANGED <<lyric_vars, handler_vars, store_vars>>

handle_set_perf_mode ==
    /\ \E sid \in Range(sockets), args \in Payloads :
          /\ event' = [name |-> "set-perf-mode", sid |-> sid, payload |-> args, handled |-> TRUE]
          /\ delivered' = emit("set-perf-mode", args, sid)
    /\ UNCHANGED <<sockets, room_karaoke>>
    /\ UNCHANGED <<lyric_vars, handler_vars, store_vars>>

handle_lyrics_data ==
    /\ \E sid \in Range(sockets), data \in Payloads :
          /\ event' = [name |-> "lyrics-data", sid |-> sid, payload |-> data, handled |-> TRUE]
          /\ delivered' = emit("lyrics-data", data, sid)
    /\ UNCHANGED <<sockets, room_karaoke>>
    /\ UNCHANGED <<lyric_vars, handler_vars, store_vars>>

handle_lyrics_loading ==
    /\ \E sid \in Range(sockets), none \in {None} :
          /\ event' = [name |-> "lyrics-loading", sid |-> sid, payload |-> none, handled |-> TRUE]
          /\ delivered' = emit("lyrics-loading", none, sid)
    /\ UNCHANGED <<sockets, room_karaoke>>
    /\ UNCHANGED <<lyric_vars, handler_vars, store_vars>>

handle_lyrics_error ==
    /\ \E sid \in Range(sockets), error \in Payloads :
          /\ event' = [name |-> "lyrics-error", sid |-> sid, payload |-> error, handled |-> TRUE]
          /\ delivered' = emit("lyrics-error", error, sid)
    /\ UNCHANGED <<sockets, room_karaoke>>
    /\ UNCHANGED <<lyric_vars, handler_vars, store_vars>>

\* handle_socket_errors: an event whose arguments do not fit the handler's
\* signature raises TypeError at the call; it is logged and nothing is sent
handle_socket_errors ==
    /\ \E sid \in Range(sockets) :
          \/ \E on \in NoArgEvents, p \in Payloads :
                event' = [name |-> on, sid |-> sid, payload |-> p, handled |-> FALSE]
          \/ \E on \in ArgEvents :
                event' = [name |-> on, sid |-> sid, payload |-> None, handled |-> FALSE]
    /\ delivered' = Silence
    /\ UNCHANGED <<sockets, room_karaoke>>
    /\ UNCHANGED <<lyric_vars, handler_vars, store_vars>>

InitRelay ==
    /\ LyricsIdle
    /\ entry = "socketio"
    /\ db_songs = {}
    /\ db_categories = {}
    /\ db_song_category = <<>>
    /\ db_lyrics = <<>>
    /\ request = NoRequest
    /\ response = Answer(0)
    /\ sockets = <<>>
    /\ room_karaoke = {}
    /\ event = NoEvent
    /\ delivered = Silence

NextRelay ==
    \/ handle_connect
    \/ handle_disconnect
    \/ handle_show_intro
    \/ handle_show_categories
    \/ handle_show_song_list
    \/ handle_goto_song
    \/ handle_play_song
    \/ handle_propose_lyrics
    \/ handle_validate_lyrics
    \/ handle_freeze_lyrics
    \/ handle_reveal_lyrics
    \/ handle_continue_lyrics
    \/ handle_lyrics_validation_result
    \/ handle_lyrics_words_count
    \/ handle_update_lyrics_to_guess
    \/ handle_set_perf_mode
    \/ handle_lyrics_data
    \/ handle_lyrics_loading
    \/ handle_lyrics_error
    \/ handle_socket_errors

SpecRelay == InitRelay /\ [][NextRelay]_vars

----------------------------------------------------------------------------
(* Properties *)

\* the request went down the automatic path of a song that has lyrics
Automatic == lyric_time = NoTime /\ Len(song_lyrics) > 0

\* the selector has come back
Back == pc \in {"returned", "done"}

\* the rows of the selector's result as transcript lines
ResultLines ==
    [i \in 1..Len(ret.lines.rows) |->
        [startTimeMs |-> ret.lines.rows[i].startTimeMs, words |-> ret.lines.rows[i].words]]

\* a separator of words: whitespace, apostrophe, hyphen
IsSeparator(c) == c \in Whitespace \cup {"'", "-"}

\* the positions where a maximal run of non-separator characters begins
TokenStarts(x) ==
    {i \in 1..Len(x) : ~IsSeparator(x[i]) /\ (i = 1 \/ IsSeparator(x[i - 1]))}

C2_Threshold ==
    (Automatic /\ Back /\ via \notin {"floor", "depth_cap"}) =>
        \A i \in 1..Len(ret.lines.rows) : ret.lines.rows[i].startTimeMs > 20000

\* a line at exactly 20000 ms with the matched word count was passed over
C2_Witness ==
    /\ Automatic /\ pc = "done" /\ via = "match"
    /\ \E i \in 1..Len(song_lyrics) :
          /\ song_lyrics[i].startTimeMs = 20000
          /\ word_len(song_lyrics[i].words) = ret.words_to_guess

\* C3: every line of the candidate set built for a target k has word count
\* exactly k, and a line picked from a candidate set has exactly the returned
\* effective word count.
C3_ExactMatch ==
    /\ \A k \in Targets :
          pc = "extract" =>
              \A i \in 1..Len(guess_candidates(df, k).rows) :
                  word_len(guess_candidates(df, k).rows[i].words) = k
    /\ (Automatic /\ Back /\ via = "match") =>
          /\ Len(ret.lines.rows) = 1
          /\ word_len(ret.lines.rows[1].words) = ret.words_to_guess

\* the requested count was matched although a longer line past the threshold exists
C3_Witness ==
    /\ Automatic /\ pc = "done" /\ via = "match"
    /\ ret.words_to_guess = words_to_guess
    /\ \E i \in 1..Len(song_lyrics) :
          /\ song_lyrics[i].startTimeMs > 20000
          /\ word_len(song_lyrics[i].words) > words_to_guess

\* C4: for a non-empty transcript and a target >= 1 the selector comes back
\* without an exception, with exactly one line of the transcript and an
\* integer effective word count, and the response is not an error.
C4_AlwaysResult ==
    (Automatic /\ Back /\ words_to_guess >= 1) =>
        /\ ret.status = "ok"
        /\ Len(ret.lines.rows) = 1
        /\ \E i \in 1..Len(song_lyrics) : song_lyrics[i] = ResultLines[1]
        /\ ret.words_to_guess \in Int
        /\ pc = "done" =>
              /\ list_lyrics.status = "ok"
              /\ Len(list_lyrics.lyricsToGuess) = 1
              /\ list_lyrics.words_to_guess = ret.words_to_guess

C4_Witness ==
    /\ Automatic /\ pc = "done" /\ words_to_guess >= 1
    /\ via = "floor" /\ list_lyrics.status = "ok"

\* C5: the selector builds at most 5 candidate sets and never goes deeper than
\* 5 recursive calls (for a target of 1..5, at most as many candidate sets as
\* the target), and it always comes back: every call that does not return
\* makes the next call one level deeper, so that the depth bound ends the
\* recursion.
C5_TerminationBound ==
    /\ [](/\ attempts <= 5
          /\ recursion_depth <= 5
          /\ (Automatic /\ words_to_guess \in 1..5) => attempts <= words_to_guess)
    /\ [][pc = "extract" =>
             \/ pc' = "returned"
             \/ pc' = "extract" /\ recursion_depth' = recursion_depth + 1
                                /\ attempts' = attempts + 1]_vars

C5_Witness == pc = "done" /\ attempts = 5 /\ recursion_depth = 5 /\ via = "depth_cap"

\* some line past the threshold has a word count within lo..hi
MatchWithin(lo, hi) ==
    \E i \in 1..Len(song_lyrics) :
        /\ song_lyrics[i].startTimeMs > 20000
        /\ word_len(song_lyrics[i].words) \in lo..hi

\* C6: a return through the depth cap is the first line of the full
\* transcript with effective word count 1, after 5 failed attempts; a target
\* k >= 6 with no line past the threshold of k-4..k words ends that way,
\* whatever shorter lines exist.
C6_DepthCapFallback ==
    /\ (Automatic /\ Back /\ via = "depth_cap") =>
          /\ ResultLines = <<song_lyrics[1]>>
          /\ ret.words_to_guess = 1
          /\ attempts = 5
    /\ (Automatic /\ Back /\ words_to_guess >= 6
          /\ ~MatchWithin(words_to_guess - 4, words_to_guess)) =>
          /\ via = "depth_cap"
          /\ ResultLines = <<song_lyrics[1]>>
          /\ ret.words_to_guess = 1

\* target 6, a one-word line past the threshold exists and is not the line returned
C6_Witness ==
    /\ Automatic /\ pc = "done" /\ via = "depth_cap"
    /\ words_to_guess = 6
    /\ MatchWithin(1, 1)
    /\ song_lyrics[1].startTimeMs <= 20000
    /\ list_lyrics.lyricsToGuess[1].startTimeMs = song_lyrics[1].startTimeMs

\* C7: when the current target is 1 and no line past the threshold has one
\* word, the selector returns the first line of the unfiltered transcript
\* with effective word count 1 and the request ends without an error.
C7_FloorFallback ==
    /\ (Automatic /\ Back /\ via = "floor") =>
          /\ ret.status = "ok"
          /\ ResultLines = <<song_lyrics[1]>>
          /\ ret.words_to_guess = 1
    /\ (Automatic /\ Back /\ words_to_guess = 1 /\ ~MatchWithin(1, 1)) =>
          /\ via = "floor"
          /\ attempts = 1
          /\ ResultLines = <<song_lyrics[1]>>
          /\ ret.words_to_guess = 1

\* every line has 8 words, the target is 1
C7_Witness ==
    /\ Automatic /\ pc = "done" /\ via = "floor"
    /\ words_to_guess = 1
    /\ Len(song_lyrics) = MaxLines
    /\ \A i \in 1..Len(song_lyrics) : word_len(song_lyrics[i].words) >= 8
    /\ song_lyrics[1] # song_lyrics[Len(song_lyrics)]
    /\ list_lyrics.status = "ok"

\* C8: for a target of 1..5 and a transcript with a line past the threshold
\* of between 1 and target words, the selector returns a line past the
\* threshold whose word count is the returned effective word count, not the
\* depth-cap fallback.
C8_DegradeToFloor ==
    (Automatic /\ Back /\ words_to_guess \in 1..5 /\ MatchWithin(1, words_to_guess)) =>
        /\ via = "match"
        /\ Len(ret.lines.rows) = 1
        /\ ret.lines.rows[1].startTimeMs > 20000
        /\ word_len(ret.lines.rows[1].words) = ret.words_to_guess

\* the single line {100000, "a"} with target 5 is matched at the fifth attempt
C8_Witness ==
    /\ pc = "done" /\ lyric_time = NoTime
    /\ song_lyrics = <<[startTimeMs |-> 100000, words |-> Txt_a] >>
    /\ words_to_guess = 5
    /\ attempts = 5
    /\ list_lyrics.lyricsToGuess = <<[startTimeMs |-> 100000, words |-> Txt_a, word_count |-> 1] >>
    /\ list_lyrics.words_to_guess = 1

\* the request asked for target 0 on the automatic path and has ended
ZeroDone == Automatic /\ pc = "done" /\ words_to_guess = 0

\* C9 as stated: target 0 gives an empty selection with effective word count
\* 0, without error, without entering the selector and without any call of
\* the word counter.
C9_Original ==
    ZeroDone =>
        /\ list_lyrics.status = "ok"
        /\ list_lyrics.lyricsToGuess = <<>>
        /\ list_lyrics.words_to_guess = 0
        /\ attempts = 0
        /\ ret = NoReturn
        /\ count_calls = 0

\* C9: target 0 gives an empty selection with effective word count 0,
\* without error and without entering the selector (no filtering, matching or
\* fallback); get_lyrics has counted the words of the transcript once, for
\* the listing, before it takes the special case.
C9_TargetZero ==
    ZeroDone =>
        /\ list_lyrics.status = "ok"
        /\ list_lyrics.lyricsToGuess = <<>>
        /\ list_lyrics.words_to_guess = 0
        /\ attempts = 0
        /\ ret = NoReturn
        /\ via = None
        /\ count_calls = 1
        /\ Len(list_lyrics.lyrics) = Len(song_lyrics)

C9_Witness == ZeroDone /\ list_lyrics.lyricsToGuess = <<>> /\ Len(song_lyrics) = MaxLines

\* some line of the transcript starts exactly at the queried time
ExactHit ==
    /\ lyric_time # NoTime
    /\ \E i \in 1..Len(song_lyrics) : song_lyrics[i].startTimeMs = lyric_time[1]

\* C10: when some line starts exactly at the queried time, the time-based
\* extractor returns lines starting at that time only, at least one, and
\* the nearest-neighbour branch is not taken.
C10_ExactTimeHit ==
    (pc = "done" /\ ExactHit) =>
        /\ list_lyrics.status = "ok"
        /\ Len(list_lyrics.lyricsToGuess) >= 1
        /\ \A i \in 1..Len(list_lyrics.lyricsToGuess) :
              list_lyrics.lyricsToGuess[i].startTimeMs = lyric_time[1]
        /\ via = "exact"

\* the exact line is returned although another line of the transcript is later
C10_Witness ==
    /\ pc = "done" /\ ExactHit
    /\ \E i \in 1..Len(song_lyrics) : song_lyrics[i].startTimeMs > lyric_time[1]
    /\ Len(list_lyrics.lyricsToGuess) = 1

\* the request asked for a time at which no line of a non-empty transcript starts
NoExactHit ==
    /\ lyric_time # NoTime
    /\ Len(song_lyrics) > 0
    /\ \A i \in 1..Len(song_lyrics) : song_lyrics[i].startTimeMs # lyric_time[1]

\* the distance of transcript line i from the queried time
Distance(i) ==
    IF song_lyrics[i].startTimeMs >= lyric_time[1]
    THEN song_lyrics[i].startTimeMs - lyric_time[1]
    ELSE lyric_time[1] - song_lyrics[i].startTimeMs

\* C11: when no line starts exactly at the queried time, the time-based
\* extractor returns one line, the line of the transcript at the smallest
\* absolute distance from that time, and among several lines at that
\* distance the one that comes first in the transcript.
C11_NearestNeighbor ==
    (pc = "done" /\ NoExactHit) =>
        /\ via = "nearest"
        /\ Len(list_lyrics.lyricsToGuess) = 1
        /\ \E i \in 1..Len(song_lyrics) :
              /\ list_lyrics.lyricsToGuess[1].startTimeMs = song_lyrics[i].startTimeMs
              /\ list_lyrics.lyricsToGuess[1].words = song_lyrics[i].words
              /\ \A j \in 1..Len(song_lyrics) : Distance(i) <= Distance(j)
              /\ \A j \in 1..(i - 1) : Distance(j) > Distance(i)

\* two lines at the same distance on either side of the query, the later time
\* first in the transcript: the first one is returned
C11_Witness ==
    /\ pc = "done" /\ NoExactHit
    /\ Len(song_lyrics) >= 2
    /\ song_lyrics[1].startTimeMs = 20000
    /\ song_lyrics[2].startTimeMs = 5000
    /\ song_lyrics[1].words # song_lyrics[2].words
    /\ lyric_time = <<12500>>
    /\ list_lyrics.lyricsToGuess[1].startTimeMs = 20000
    /\ list_lyrics.lyricsToGuess[1].words = song_lyrics[1].words

\* the transcript the request works on: the stored one, or the provider's
Transcript == IF Len(song_lyrics) > 0 THEN song_lyrics ELSE spotify_lyrics

\* the request went through the time-based extractor and was answered
TimeBasedDone == pc = "done" /\ lyric_time # NoTime /\ list_lyrics.status = "ok"

\* C12: the words_to_guess the time-based extractor answers with is the word
\* count of the line it returns (the number of maximal runs of non-separator
\* characters), whatever count was requested, in get_lyrics where the frame
\* already has a word_count column and in get_lyrics_internal where it has none.
C12_TimeBasedWordCount ==
    TimeBasedDone =>
        /\ Len(list_lyrics.lyricsToGuess) >= 1
        /\ list_lyrics.words_to_guess =
              Cardinality(TokenStarts(list_lyrics.lyricsToGuess[1].words))
        /\ list_lyrics.lyricsToGuess[1].word_count = list_lyrics.words_to_guess
        /\ ret.words_to_guess = list_lyrics.words_to_guess

\* the frame had no word_count column, one word was requested, the line has eight
C12_Witness ==
    /\ TimeBasedDone
    /\ entry = "get_lyrics_internal"
    /\ words_to_guess = 1
    /\ Len(song_lyrics) = MaxLines
    /\ song_lyrics[1].words = Txt_a
    /\ list_lyrics.lyricsToGuess[1].words = Txt_eight
    /\ list_lyrics.words_to_guess = 8

\* C13: when the selector raises, the handler answers without an error, with
\* the first line of the transcript as lyricsToGuess and words_to_guess 1.
C13_FailureSubstitution ==
    (pc = "done" /\ ret.status = "raised") =>
        /\ list_lyrics.status = "ok"
        /\ Len(list_lyrics.lyricsToGuess) = 1
        /\ list_lyrics.lyricsToGuess[1].startTimeMs = Transcript[1].startTimeMs
        /\ list_lyrics.lyricsToGuess[1].words = Transcript[1].words
        /\ list_lyrics.words_to_guess = 1

\* the count of line 373 raised on a null words value in the second line
C13_Witness ==
    /\ pc = "done" /\ ret.status = "raised" /\ via = "raise"
    /\ Len(song_lyrics) >= 2
    /\ song_lyrics[1].words # NullText
    /\ song_lyrics[2].words = NullText
    /\ song_lyrics[1].startTimeMs > song_lyrics[2].startTimeMs
    /\ list_lyrics.status = "ok"

\* no selector runs on a frame without rows
NoSelectorOnEmpty ==
    (pc = "extract" \/ via # None) => Len(df.rows) > 0

\* C14 as stated: no selector is invoked with a zero-line transcript, and a
\* request for a song without stored lyrics is answered with an error.
C14_Original ==
    /\ NoSelectorOnEmpty
    /\ (pc = "done" /\ Len(song_lyrics) = 0) => list_lyrics.status = "error"

\* C14: no selector is invoked with a zero-line transcript; get_lyrics answers
\* a song without stored lyrics with an error; get_lyrics_internal asks the
\* lyrics provider first and answers with an error only when the provider
\* gives nothing, otherwise it serves the provider's transcript; no answer
\* carries a lyricsToGuess that is not a line of the transcript in use.
C14_EmptyTranscript ==
    /\ NoSelectorOnEmpty
    /\ (pc = "done" /\ Len(song_lyrics) = 0) =>
          /\ entry = "get_lyrics" => list_lyrics.status = "error"
          /\ (entry = "get_lyrics_internal" /\ spotify_lyrics = <<>>) =>
                list_lyrics.status = "error"
          /\ (entry = "get_lyrics_internal" /\ spotify_lyrics # <<>>) =>
                /\ list_lyrics.status = "ok"
                /\ list_lyrics.lyrics = spotify_lyrics
          /\ list_lyrics.status = "error" => list_lyrics.lyricsToGuess = <<>>
          /\ \A i \in 1..Len(list_lyrics.lyricsToGuess) :
                \E j \in 1..Len(spotify_lyrics) :
                    /\ list_lyrics.lyricsToGuess[i].startTimeMs = spotify_lyrics[j].startTimeMs
                    /\ list_lyrics.lyricsToGuess[i].words = spotify_lyrics[j].words

\* nothing stored, the provider answered, a line of its transcript is served
C14_Witness ==
    /\ pc = "done" /\ Len(song_lyrics) = 0
    /\ entry = "get_lyrics_internal"
    /\ Len(spotify_lyrics) = 2
    /\ list_lyrics.status = "ok"
    /\ Len(list_lyrics.lyricsToGuess) = 1

\* C15 as stated: extract_lyric_to_guess is never invoked with a negative target.
C15_NoNegativeTarget == pc = "extract" => target >= 0

\* the frame as the handler passed it to the selector
PassedFrame ==
    IF entry = "get_lyrics"
    THEN set_word_count(DataFrame(song_lyrics))
    ELSE DataFrame(Transcript)

\* C16 as stated: after a call of either selector the frame the caller passed
\* in has the same rows and the same columns as before the call.
C16_TranscriptUnchanged ==
    (pc \in {"returned", "done"} /\ via # None) => df = PassedFrame

\* C17 as stated: the effective word count of every result of the automatic
\* selector is the word count of the returned line, and it is lower than the
\* requested count only after a failed attempt.
C17_Original ==
    (Automatic /\ Back /\ Len(ret.lines.rows) >= 1) =>
        /\ word_len(ret.lines.rows[1].words) = ret.words_to_guess
        /\ ret.words_to_guess < words_to_guess => attempts > 1

\* C17: a line picked from a candidate set has the effective word count as
\* its word count, never more than the requested count, and less only after
\* a failed attempt; a line returned through the floor or depth-cap fallback
\* has effective word count 1 whatever its own word count.
C17_EffectiveWordCount ==
    /\ (Automatic /\ Back /\ via = "match") =>
          /\ word_len(ret.lines.rows[1].words) = ret.words_to_guess
          /\ ret.words_to_guess <= words_to_guess
          /\ ret.words_to_guess < words_to_guess <=> attempts > 1
    /\ (Automatic /\ Back /\ via \in {"floor", "depth_cap"}) =>
          /\ ret.words_to_guess = 1
          /\ ret.lines.rows = <<df.rows[1]>>

\* a degraded match, and a shorter line past the threshold that was passed over
\* at the first attempt
C17_Witness ==
    /\ Automatic /\ pc = "done" /\ via = "match"
    /\ words_to_guess = 5
    /\ ret.words_to_guess = 3
    /\ attempts = 3
    /\ MatchWithin(1, 1)


----------------------------------------------------------------------------
(* The database endpoints *)

\* the request names a track id and neither a track name nor an artist
OnlyTrackId(r) == ~falsy(r.track_id) /\ falsy(r.track_name) /\ falsy(r.artist)

AddSongContract ==
    request'.op = "add_song" =>
        /\ add_song_rejects(request') =>
              /\ response'.status = 400
              /\ UNCHANGED <<db_songs, db_categories, db_song_category, db_lyrics>>
        /\ (OnlyTrackId(request') /\ request'.track_id \in SongIds) =>
              /\ response'.status = 200
              /\ response'.song = request'.track_id
              /\ request'.track_id \in db_songs'

\* C18: add_song takes a track id alone or a track name with an artist: a
\* request with neither is answered 400 and leaves the database as it was, and
\* a request with only a valid track id, whose track and lyrics the providers
\* have, ends with the song stored and its details answered.
C18_AddSongByTrackId == [][AddSongContract]_vars

NoDuplicateAssociation ==
    \A i, j \in DOMAIN db_song_category :
        db_song_category[i] = db_song_category[j] => i = j

AddSongsToCategoryContract ==
    (request'.op = "add_songs_to_category" /\ response'.status = 200) =>
        LET category_id == request'.category_id
            songs_added == response'.songs_added
            fresh == {s \in Range(request'.song_ids) :
                         /\ s \in db_songs
                         /\ <<s, category_id>> \notin Range(db_song_category)}
        IN  /\ Range(songs_added) = fresh
            /\ Len(songs_added) = Cardinality(fresh)
            /\ Range(db_song_category') =
                  Range(db_song_category) \cup {<<s, category_id>> : s \in fresh}
            /\ Len(db_song_category') = Len(db_song_category) + Len(songs_added)
            /\ (request' = request /\ response.status = 200) =>
                  /\ songs_added = <<>>
                  /\ db_song_category' = db_song_category

\* C19: add_songs_to_category never creates a duplicate association: after any
\* sequence of calls each (song, category) pair is in song_category at most
\* once; songs_added lists exactly the existing songs that were not yet in the
\* category, each once even when its id is repeated in song_ids; unknown song
\* ids are skipped; repeating the same call adds nothing.
C19_NoDuplicateAssociation ==
    []NoDuplicateAssociation /\ [][AddSongsToCategoryContract]_vars

\* a call with a repeated id and an unknown id added its one new song once
C19_Witness ==
    /\ request.op = "add_songs_to_category"
    /\ request.song_ids = <<"s1", "s1", UnknownSong>>
    /\ response.status = 200
    /\ response.songs_added = <<"s1">>
    /\ <<"s2", request.category_id>> \in Range(db_song_category)
    /\ <<"s1", request.category_id>> \in Range(db_song_category)

----------------------------------------------------------------------------
(* The relay *)

\* the last event was a presenter event and its handler ran
Relayed == event.name \in NoArgEvents \cup ArgEvents /\ event.handled

\* C20: for every presenter event handled, exactly one outbound event with the
\* unchanged payload is delivered to every client currently in room 'karaoke'
\* other than the sender, none to the sender itself and none to a client that
\* has disconnected.
C20_Relay ==
    Relayed =>
        \A c \in Sids :
            /\ (c \in room_karaoke /\ c # event.sid) =>
                  /\ Len(delivered[c]) = 1
                  /\ delivered[c][1].payload = event.payload
            /\ (c = event.sid \/ c \notin Range(sockets)) => delivered[c] = <<>>

\* q sent a payload while p was connected and r had left
C20_Witness ==
    /\ Relayed
    /\ event.name = "lyrics-validation-result"
    /\ event.sid = "q"
    /\ event.payload = "x"
    /\ sockets = <<"p", "q">>
    /\ Len(delivered["p"]) = 1
    /\ delivered["r"] = <<>>

----------------------------------------------------------------------------
(* Degradation and bounds of the automatic selection *)

\* the targets of the window max(1, k-4)..k that some line past the threshold has
Window(k) ==
    {w \in (IF k - 4 > 1 THEN k - 4 ELSE 1)..k : MatchWithin(w, w)}

Max(S) == CHOOSE m \in S : \A x \in S : x <= m

\* C21: for a target k >= 1, when some target of the window max(1, k-4)..k
\* has a line past the threshold, the selector returns the largest such target
\* as effective word count with a line of that candidate set, having tried
\* every higher target of the window first and found its candidate set empty.
C21_DegradationOrder ==
    (Automatic /\ Back /\ words_to_guess >= 1 /\ Window(words_to_guess) # {}) =>
        /\ via = "match"
        /\ ret.words_to_guess = Max(Window(words_to_guess))
        /\ Len(ret.lines.rows) = 1
        /\ ret.lines.rows[1].startTimeMs > 20000
        /\ word_len(ret.lines.rows[1].words) = Max(Window(words_to_guess))
        /\ attempts = words_to_guess - Max(Window(words_to_guess)) + 1

\* target 7 with lines of 6 and of 3 words past the threshold: 6 is answered
C21_Witness ==
    /\ Automatic /\ pc = "done" /\ via = "match"
    /\ words_to_guess = 7
    /\ Window(7) = {3, 6}
    /\ ret.words_to_guess = 6
    /\ attempts = 2

\* the request went down the automatic selection of a transcript with lines,
\* for a target of at least 1, and was answered
AutomaticDone ==
    /\ pc = "done"
    /\ lyric_time = NoTime
    /\ Len(Transcript) > 0
    /\ words_to_guess >= 1
    /\ list_lyrics.status = "ok"

\* C22: for a transcript with lines and a requested target k >= 1, the
\* words_to_guess answered by the automatic selection, through a match, either
\* fallback or the handler's exception fallback, is at least 1 and at most k.
C22_EffectiveBounds ==
    AutomaticDone =>
        /\ 1 <= list_lyrics.words_to_guess
        /\ list_lyrics.words_to_guess <= words_to_guess

\* the exception fallback answered a request for one word
C22_Witness ==
    /\ AutomaticDone
    /\ ret.status = "raised"
    /\ words_to_guess = 1
    /\ list_lyrics.words_to_guess = 1
    /\ Len(list_lyrics.lyricsToGuess) = 1

----------------------------------------------------------------------------
(* Mode precedence *)

\* the caller supplied a valid integer lyric_time
ValidLyricTime ==
    \/ arg_lyric_time.kind = "int"
    \/ arg_lyric_time.kind = "str" /\ ~int_raises(arg_lyric_time.chars)

\* the integer the caller supplied
SuppliedTime ==
    IF arg_lyric_time.kind = "int" THEN arg_lyric_time.value
    ELSE int_of(arg_lyric_time.chars)

\* the request was answered by the automatic selector or by the empty selection
AutomaticOrEmpty ==
    /\ pc = "done"
    /\ list_lyrics.status = "ok"
    /\ \/ via \in {"match", "floor", "depth_cap", "raise"}
       \/ list_lyrics.lyricsToGuess = <<>>

\* C23: whenever a valid integer lyric_time is supplied, 0 included, the
\* time-based extractor answers and the requested words_to_guess is ignored:
\* even with words_to_guess 0 a line is returned with its own word count; the
\* empty selection of target 0 and the automatic selector are reached only
\* when no usable lyric_time is given.
C23_ModePrecedence ==
    /\ (pc = "done" /\ ValidLyricTime /\ list_lyrics.status = "ok") =>
          /\ lyric_time = <<SuppliedTime>>
          /\ via \in {"exact", "nearest"}
          /\ Len(list_lyrics.lyricsToGuess) >= 1
          /\ list_lyrics.words_to_guess = word_len(list_lyrics.lyricsToGuess[1].words)
    /\ AutomaticOrEmpty => ~ValidLyricTime

\* get_lyrics_internal with specific_lyric_time 0 and words_to_guess 0
C23_Witness ==
    /\ pc = "done"
    /\ entry = "get_lyrics_internal"
    /\ arg_lyric_time = IntArg(0)
    /\ words_to_guess = 0
    /\ via = "nearest"
    /\ list_lyrics.status = "ok"
    /\ Len(list_lyrics.lyricsToGuess) = 1
    /\ list_lyrics.words_to_guess = 8

----------------------------------------------------------------------------
(* The result of the time-based extractor *)

\* C24: for every transcript with lines and every query time, the time-based
\* extractor returns exactly one line, lyricsToGuess has length 1, also when
\* several lines of the transcript start at the queried time.
C24_SingleLine ==
    (pc = "done" /\ lyric_time # NoTime /\ Len(song_lyrics) > 0) =>
        Len(list_lyrics.lyricsToGuess) = 1

----------------------------------------------------------------------------
(* Word count across the entry points *)

\* C25: for every lyric line, the word_count the 'select' operation of
\* /api/lyrics-management reports is the Word Counter's count of that line,
\* apostrophes and hyphens both taken as separators: the value the getLyrics
\* path reports for the same line, hyphenated lines included.
C25_SelectWordCount ==
    (pc = "selected" /\ manage.status = 200) =>
        manage.word_count = count_words(<<manage.selected_lyric[1].words>>)[1]

----------------------------------------------------------------------------
(* Connection bookkeeping *)

NoDuplicateSockets ==
    \A i, j \in DOMAIN sockets : sockets[i] = sockets[j] => i = j

BookkeepingStep ==
    /\ event'.name = "connect" =>
          Range(sockets') = Range(sockets) \cup {event'.sid}
    /\ event'.name = "disconnect" =>
          /\ Range(sockets') = Range(sockets) \ {event'.sid}
          /\ event'.sid \notin Range(sockets) => sockets' = sockets
          /\ event'.handled
    /\ event'.name \notin {"connect", "disconnect"} => sockets' = sockets

\* C26: after any interleaving of connect and disconnect events the list
\* sockets holds exactly the session ids that connected and have not
\* disconnected, each once; a disconnect for an id that is not in the list
\* leaves the list as it was and raises nothing.
C26_ConnectionBookkeeping ==
    /\ [](NoDuplicateSockets /\ Range(sockets) = room_karaoke)
    /\ [][BookkeepingStep]_vars

\* p, q and r connected in that order and q has left
C26_Witness ==
    /\ event.name = "disconnect"
    /\ event.sid = "q"
    /\ sockets = <<"p", "r">>
    /\ room_karaoke = {"p", "r"}

----------------------------------------------------------------------------
(* Deletion *)

DeletionFrame ==
    /\ request'.op = "delete_category" =>
          LET c == request'.category_id
          IN  IF c \in db_categories
              THEN /\ response'.status = 200
                   /\ db_categories' = db_categories \ {c}
                   /\ Range(db_song_category') = {r \in Range(db_song_category) : r[2] # c}
                   /\ Len(db_song_category') = Cardinality(Range(db_song_category'))
                   /\ UNCHANGED <<db_songs, db_lyrics>>
              ELSE /\ response'.status = 404
                   /\ UNCHANGED <<db_songs, db_categories, db_song_category, db_lyrics>>
    /\ request'.op = "delete_song" =>
          LET s == request'.track_id
          IN  IF s \in db_songs
              THEN /\ response'.status = 200
                   /\ db_songs' = db_songs \ {s}
                   /\ Range(db_song_category') = {r \in Range(db_song_category) : r[1] # s}
                   /\ Len(db_song_category') = Cardinality(Range(db_song_category'))
                   /\ UNCHANGED db_categories
                   /\ \A o \in db_songs' : db_lyrics'[o] = db_lyrics[o]
              ELSE /\ response'.status = 404
                   /\ UNCHANGED <<db_songs, db_categories, db_song_category, db_lyrics>>

\* C27: delete_category on an existing category removes the category and all
\* of its song associations and leaves the songs and the associations of every
\* other category as they were; delete_song removes the song and its
\* associations and keeps every category; deleting an unknown id answers 404
\* and changes nothing.
C27_DeletionFrame == [][DeletionFrame]_vars

\* category c1 was deleted; both songs and their associations with c2 remain
C27_Witness ==
    /\ request.op = "delete_category"
    /\ request.category_id = "c1"
    /\ response.status = 200
    /\ db_categories = {"c2"}
    /\ db_songs = SongIds
    /\ Range(db_song_category) = {<<"s1", "c2">>, <<"s2", "c2">>}

----------------------------------------------------------------------------
(* The stored lyrics *)

LyricsKept ==
    request'.op \in {"fetch_and_store_lyrics", "add_song"} =>
        /\ \A s \in db_songs :
              db_lyrics[s] # <<>> => db_lyrics'[s] = db_lyrics[s]
        /\ (request'.op = "fetch_and_store_lyrics"
              /\ request'.track_id \in db_songs
              /\ db_lyrics[request'.track_id] # <<>>) => response'.returned
        /\ Range(db_song_category) \subseteq Range(db_song_category')
        /\ (request'.op = "add_song" /\ response'.status = 200
              /\ response'.already_exists) =>
              /\ db_songs' = db_songs
              /\ \A r \in Range(db_song_category') \ Range(db_song_category) :
                    r[1] = response'.song

\* C28: the fetch paths never overwrite stored lyrics: for a song that has
\* lyrics, fetch_and_store_lyrics returns True and search_and_add_song answers
\* with the lyrics left as they were, and search_and_add_song on an existing
\* song only adds categories and removes no association.
C28_LyricsKept == [][LyricsKept]_vars

\* s1 was added again: its old lyrics and its category c2 are kept, c1 is new
C28_Witness ==
    /\ request.op = "add_song"
    /\ response.status = 200
    /\ response.song = "s1"
    /\ response.already_exists
    /\ db_lyrics["s1"] = OldLyrics
    /\ Range(db_song_category) = {<<"s1", "c2">>, <<"s1", "c1">>}

FetchStores ==
    request'.op = "fetch_and_store_lyrics" =>
        /\ (request'.track_id \in db_songs /\ db_lyrics[request'.track_id] = <<>>) =>
              /\ response'.returned
              /\ db_lyrics'[request'.track_id] = to_dict(DataFrame(LrcLibLyrics))
        /\ ~response'.returned => request'.track_id \notin db_songs

\* C29: for a song that exists and has no stored lyrics, when the lyrics
\* provider holds a transcript with lines for it, fetch_and_store_lyrics stores
\* that transcript on the song and returns True; it returns False only for an
\* unknown song, a provider without lyrics or a failing provider call.
C29_FetchStores == [][FetchStores]_vars

====
